---- MODULE Spec2Model ----
(***************************************************************************)
(* A model of the camera / projection, camera controller, instance batch   *)
(* and glyph atlas subsystems of wilhelm_renderer.                         *)
(*                                                                         *)
(* f32 values are modelled as extended rationals <<n, d>>: d > 0 is the    *)
(* finite value n/d in lowest terms, <<1,0>> and <<-1,0>> are the two      *)
(* infinities and <<0,0>> is NaN.  Arithmetic on finite values is exact:   *)
(* the rounding of the 24-bit significand is not modelled, so equalities   *)
(* between f32 results are equalities of the real-number results.          *)
(***************************************************************************)
EXTENDS Integers, Sequences, FiniteSets, TLC

VARIABLES
    camera,     \* a stand-alone Camera2D
    camLast,    \* the last Camera2D operation, its arguments and the camera before it
    camOps,     \* number of Camera2D operations applied so far
    ctrl,       \* a CameraController
    ctrlLast,   \* the last controller operation, its arguments and the controller before it
    ctrlOps,    \* number of controller operations applied so far
    drag,       \* the controller before the current run of cursor moves and updates
    leftPressed, \* the most recent event for the left mouse button was a press
    geom,       \* the instancing fields of a ShapeRenderable's Geometry
    shape,      \* the ShapeRenderable's anchor and scale
    gl,         \* the graphics backend: buffers generated, draws issued by the last render
    instHist,   \* history of the instancing calls made on the geometry
    instOps,    \* number of instancing operations applied so far
    font,       \* the font source: per character, its rasterized metrics
    atlas,      \* a FontAtlas
    atlasLast,  \* the last get_glyph request, its result and the atlas before it
    firstInfo,  \* per character, the GlyphInfo returned by its first successful request
    textOut,    \* the last text_geometry call, its result and the atlas before it
    fullHist,   \* the characters refused for lack of room, and the uploads made by then
    built,      \* the last shape construction: its input and its outcome
    FONT_CACHE, \* the thread-local font cache: (font path, font size) -> Rc of a FontAtlas
    heap,       \* the live Rc<RefCell<FontAtlas>> allocations: the atlas and its strong count
    textures,   \* the texture names the graphics backend holds
    texts,      \* the live text renderables
    requests,   \* history of the get_or_create_font_atlas calls
    cacheOps    \* number of font cache operations applied so far

camVars   == <<camera, camLast, camOps>>
ctrlVars  == <<ctrl, ctrlLast, ctrlOps, drag, leftPressed>>
instVars  == <<geom, shape, gl, instHist, instOps>>
atlasVars == <<font, atlas, atlasLast, firstInfo, textOut, fullHist>>
fontCacheVars == <<FONT_CACHE, heap, textures, texts, requests, cacheOps>>
shapeVars == <<built, fontCacheVars>>
vars      == <<camVars, ctrlVars, instVars, atlasVars, shapeVars>>

---------------------------------------------------------------------------
(* f32 arithmetic.  Common factors are cancelled before multiplying, which keeps the
   intermediate integers small. *)

Abs(x) == IF x < 0 THEN -x ELSE x

Sgn(x) == IF x < 0 THEN -1 ELSE IF x > 0 THEN 1 ELSE 0

RECURSIVE Gcd(_, _)
Gcd(a, b) == IF b = 0 THEN a ELSE Gcd(b, a % b)

\* the f32 value n/d (d = 0: an infinity of n's sign, or NaN when n = 0)
Norm(n, d) ==
    IF d = 0 THEN <<Sgn(n), 0>>
    ELSE LET g == Gcd(Abs(n), Abs(d))
             s == IF d < 0 THEN -1 ELSE 1
         IN  <<(s * n) \div g, (s * d) \div g>>

NaN == <<0, 0>>

F(n) == <<n, 1>>

IsFinite(a) == a[2] # 0

IsNaN(a) == a = NaN

FNeg(a) == <<-a[1], a[2]>>

FAdd(a, b) ==
    IF IsNaN(a) \/ IsNaN(b) THEN NaN
    ELSE IF ~IsFinite(a) /\ ~IsFinite(b) THEN (IF a = b THEN a ELSE NaN)
    ELSE IF ~IsFinite(a) THEN a
    ELSE IF ~IsFinite(b) THEN b
    ELSE LET g == Gcd(a[2], b[2])
         IN  Norm(a[1] * (b[2] \div g) + b[1] * (a[2] \div g), (a[2] \div g) * b[2])

FSub(a, b) == FAdd(a, FNeg(b))

FMul(a, b) ==
    IF IsNaN(a) \/ IsNaN(b) THEN NaN
    ELSE IF ~IsFinite(a) \/ ~IsFinite(b)
         THEN (IF a[1] = 0 \/ b[1] = 0 THEN NaN ELSE <<Sgn(a[1]) * Sgn(b[1]), 0>>)
    ELSE LET g == Gcd(Abs(a[1]), b[2])
             h == Gcd(Abs(b[1]), a[2])
         IN  Norm((a[1] \div g) * (b[1] \div h), (a[2] \div h) * (b[2] \div g))

\* x / 0 is an infinity (0 / 0 is NaN); the zero divisor is taken as +0.0
FDiv(a, b) ==
    IF IsNaN(a) \/ IsNaN(b) THEN NaN
    ELSE IF ~IsFinite(a) /\ ~IsFinite(b) THEN NaN
    ELSE IF ~IsFinite(a) THEN <<a[1] * (IF b[1] < 0 THEN -1 ELSE 1), 0>>
    ELSE IF ~IsFinite(b) THEN F(0)
    ELSE IF b[1] = 0 THEN <<Sgn(a[1]), 0>>
    ELSE FMul(a, IF b[1] < 0 THEN <<-b[2], -b[1]>> ELSE <<b[2], b[1]>>)

\* the comparisons of f32: NaN compares unequal to and unordered with everything
FEq(a, b) == ~IsNaN(a) /\ ~IsNaN(b) /\ a = b

FLt(a, b) ==
    /\ ~IsNaN(a) /\ ~IsNaN(b) /\ a # b
    /\ IF IsFinite(a) /\ IsFinite(b)
       THEN LET g == Gcd(a[2], b[2])
            IN  a[1] * (b[2] \div g) < b[1] * (a[2] \div g)
       ELSE IF ~IsFinite(a) THEN a[1] < 0
       ELSE b[1] > 0

FGt(a, b) == FLt(b, a)

Half == <<1, 2>>

Vec2(x, y) == [x |-> x, y |-> y]

V(n, m) == Vec2(F(n), F(m))

VEq(p, q) == FEq(p.x, q.x) /\ FEq(p.y, q.y)

---------------------------------------------------------------------------
(* Camera2D *)

Camera2D_new(center, scale, screen_size) ==
    [center |-> center, scale |-> scale, screen_size |-> screen_size]

\* a world_to_screen that adds the whole screen size instead of half of it
world_to_screen_full_size(cam, world) ==
    Vec2(FAdd(FMul(FSub(world.x, cam.center.x), cam.scale), cam.screen_size.x),
         FAdd(FMul(FSub(world.y, cam.center.y), cam.scale), cam.screen_size.y))

world_to_screen(cam, world) ==
    Vec2(FAdd(FMul(FSub(world.x, cam.center.x), cam.scale), FMul(cam.screen_size.x, Half)),
         FAdd(FMul(FSub(world.y, cam.center.y), cam.scale), FMul(cam.screen_size.y, Half)))

\* a screen_to_world that multiplies by the scale instead of dividing by it
screen_to_world_times_scale(cam, screen) ==
    Vec2(FAdd(FMul(FSub(screen.x, FMul(cam.screen_size.x, Half)), cam.scale), cam.center.x),
         FAdd(FMul(FSub(screen.y, FMul(cam.screen_size.y, Half)), cam.scale), cam.center.y))

screen_to_world(cam, screen) ==
    Vec2(FAdd(FDiv(FSub(screen.x, FMul(cam.screen_size.x, Half)), cam.scale), cam.center.x),
         FAdd(FDiv(FSub(screen.y, FMul(cam.screen_size.y, Half)), cam.scale), cam.center.y))

set_center(cam, center) == [cam EXCEPT !.center = center]

set_scale(cam, scale) == [cam EXCEPT !.scale = scale]

set_screen_size(cam, screen_size) == [cam EXCEPT !.screen_size = screen_size]

pan(cam, delta) ==
    [cam EXCEPT !.center = Vec2(FAdd(cam.center.x, delta.x), FAdd(cam.center.y, delta.y))]

pan_screen(cam, delta_pixels) ==
    [cam EXCEPT !.center = Vec2(FSub(cam.center.x, FDiv(delta_pixels.x, cam.scale)),
                                FSub(cam.center.y, FDiv(delta_pixels.y, cam.scale)))]

zoom(cam, factor) == [cam EXCEPT !.scale = FMul(cam.scale, factor)]

\* a zoom_at that scales without adjusting the center
zoom_at_no_recenter(cam, factor, screen_point) ==
    [cam EXCEPT !.scale = FMul(cam.scale, factor)]

zoom_at(cam, factor, screen_point) ==
    LET world_before == screen_to_world(cam, screen_point)
        zoomed       == [cam EXCEPT !.scale = FMul(cam.scale, factor)]
        world_after  == screen_to_world(zoomed, screen_point)
    IN  [zoomed EXCEPT !.center =
            Vec2(FAdd(zoomed.center.x, FSub(world_before.x, world_after.x)),
                 FAdd(zoomed.center.y, FSub(world_before.y, world_after.y)))]

\* bounds that extend a whole screen to either side of the center
world_bounds_full_extent(cam) ==
    LET width  == FDiv(cam.screen_size.x, cam.scale)
        height == FDiv(cam.screen_size.y, cam.scale)
    IN  <<FSub(cam.center.x, width), FSub(cam.center.y, height),
          FAdd(cam.center.x, width), FAdd(cam.center.y, height)>>

world_bounds(cam) ==
    LET half_width  == FDiv(cam.screen_size.x, FMul(F(2), cam.scale))
        half_height == FDiv(cam.screen_size.y, FMul(F(2), cam.scale))
    IN  <<FSub(cam.center.x, half_width), FSub(cam.center.y, half_height),
          FAdd(cam.center.x, half_width), FAdd(cam.center.y, half_height)>>

---------------------------------------------------------------------------
(* Bounds and input sets of the Camera2D specification *)

MaxCamOps == 2

CamCenters == {V(0, 0), V(100, 50)}

CamScales == {F(1), F(2), Half, F(3)}

ScreenSizes == {V(800, 600), V(640, 480)}

\* the two screen centres, a corner, an interior point and a point outside the visible area
ScreenPoints == {V(400, 300), V(320, 240), V(0, 0), V(420, 320), V(-100, 700)}

WorldPoints == {V(0, 0), V(10, 10), V(100, 50), V(-7, 3)}

ZoomFactors == {F(2), Half, F(3)}

PanDeltas == {V(10, 0), V(-15, 25)}

\* the cameras constructed
Cameras == {Camera2D_new(V(0, 0), F(1), V(800, 600)), Camera2D_new(V(100, 50), Half, V(640, 480))}

NoCamOp == [op |-> "new", factor |-> F(1), point |-> V(0, 0), pre |-> Camera2D_new(V(0, 0), F(1), V(0, 0))]

CamOp(name, factor, point) ==
    [op |-> name, factor |-> factor, point |-> point, pre |-> camera]

CamInit ==
    /\ camera \in Cameras
    /\ camLast = NoCamOp
    /\ camOps = 0

CamIdle ==
    /\ camera = Camera2D_new(V(0, 0), F(1), V(800, 600))
    /\ camLast = NoCamOp
    /\ camOps = 0

CamStep(cam, op) ==
    /\ camOps < MaxCamOps
    /\ UNCHANGED <<ctrlVars, instVars, atlasVars, shapeVars>>
    /\ camera' = cam
    /\ camLast' = op
    /\ camOps' = camOps + 1

CamSetCenter == \E c \in CamCenters : CamStep(set_center(camera, c), CamOp("set_center", F(1), c))

CamSetScale == \E s \in CamScales : CamStep(set_scale(camera, s), CamOp("set_scale", s, V(0, 0)))

CamSetScreenSize ==
    \E z \in ScreenSizes : CamStep(set_screen_size(camera, z), CamOp("set_screen_size", F(1), z))

CamPan == \E d \in PanDeltas : CamStep(pan(camera, d), CamOp("pan", F(1), d))

CamPanScreen == \E d \in PanDeltas : CamStep(pan_screen(camera, d), CamOp("pan_screen", F(1), d))

CamZoom == \E f \in ZoomFactors : CamStep(zoom(camera, f), CamOp("zoom", f, V(0, 0)))

CamZoomAt ==
    \E f \in ZoomFactors, p \in ScreenPoints :
        CamStep(zoom_at(camera, f, p), CamOp("zoom_at", f, p))

---------------------------------------------------------------------------
(* CameraController *)

\* imported by camera.rs from core::engine::glfw; only ever compared for equality
GLFW_MOUSE_BUTTON_LEFT == 0

GLFW_RELEASE == 0

GLFW_PRESS == 1

GLFW_REPEAT == 2

RECURSIVE Pow2(_)
Pow2(k) == IF k = 0 THEN 1 ELSE 2 * Pow2(k - 1)

\* f32::exp at the argument x * ln 2, for integral x: exactly 2^x.  The frame time dt
\* is measured in units of ln 2 seconds, which keeps every exponential rational.
exp(x) ==
    CASE x[2] = 1 /\ x[1] >= 0 -> F(Pow2(x[1]))
      [] x[2] = 1 /\ x[1] < 0 -> <<1, Pow2(-x[1])>>

CameraController_new(cam) ==
    [camera |-> cam,
     target_scale |-> cam.scale,
     target_center |-> cam.center,
     is_dragging |-> FALSE,
     last_cursor_pos |-> V(0, 0),
     zoom_sensitivity |-> <<11, 10>>,
     zoom_smoothness |-> F(6)]

set_zoom_sensitivity(c, sensitivity) == [c EXCEPT !.zoom_sensitivity = sensitivity]

set_zoom_smoothness(c, smoothness) == [c EXCEPT !.zoom_smoothness = smoothness]

\* an on_mouse_button that takes every button for the drag button
on_mouse_button_any_button(c, button, action) == [c EXCEPT !.is_dragging = (action = GLFW_PRESS)]

on_mouse_button(c, button, action) ==
    IF button = GLFW_MOUSE_BUTTON_LEFT
    THEN [c EXCEPT !.is_dragging = (action = GLFW_PRESS)]
    ELSE c

\* an on_cursor_move that divides the screen delta by the displayed scale
on_cursor_move_displayed_scale(c, cursor) ==
    LET delta == Vec2(FSub(cursor.x, c.last_cursor_pos.x), FSub(cursor.y, c.last_cursor_pos.y))
        scale == c.camera.scale
        moved == IF c.is_dragging
                 THEN [c EXCEPT !.target_center =
                           Vec2(FSub(c.target_center.x, FDiv(delta.x, scale)),
                                FSub(c.target_center.y, FDiv(delta.y, scale)))]
                 ELSE c
    IN  [moved EXCEPT !.last_cursor_pos = cursor]

on_cursor_move(c, cursor) ==
    LET delta == Vec2(FSub(cursor.x, c.last_cursor_pos.x), FSub(cursor.y, c.last_cursor_pos.y))
        scale == c.target_scale
        moved == IF c.is_dragging
                 THEN [c EXCEPT !.target_center =
                           Vec2(FSub(c.target_center.x, FDiv(delta.x, scale)),
                                FSub(c.target_center.y, FDiv(delta.y, scale)))]
                 ELSE c
    IN  [moved EXCEPT !.last_cursor_pos = cursor]

\* a world_at_screen computed from the displayed camera instead of the target state
world_at_screen_displayed(c, screen) == screen_to_world(c.camera, screen)

\* world coordinates at a screen position, computed from the target state
world_at_screen(c, screen) ==
    LET screen_size == c.camera.screen_size
    IN  Vec2(FAdd(FDiv(FSub(screen.x, FMul(screen_size.x, Half)), c.target_scale), c.target_center.x),
             FAdd(FDiv(FSub(screen.y, FMul(screen_size.y, Half)), c.target_scale), c.target_center.y))

\* an on_scroll that also applies the zoom factor to the displayed camera at once
on_scroll_immediate(c, y_offset) ==
    [c EXCEPT !.target_scale = FMul(c.target_scale, IF FGt(y_offset, F(0)) THEN c.zoom_sensitivity
                                                     ELSE FDiv(F(1), c.zoom_sensitivity)),
              !.camera = zoom(c.camera, IF FGt(y_offset, F(0)) THEN c.zoom_sensitivity
                                        ELSE FDiv(F(1), c.zoom_sensitivity))]

on_scroll(c, y_offset) ==
    LET factor == IF FGt(y_offset, F(0)) THEN c.zoom_sensitivity
                  ELSE FDiv(F(1), c.zoom_sensitivity)
        world_point == world_at_screen(c, c.last_cursor_pos)
        new_scale == FMul(c.target_scale, factor)
        screen_size == c.camera.screen_size
    IN  [c EXCEPT
           !.target_scale = new_scale,
           !.target_center =
               Vec2(FSub(world_point.x,
                         FDiv(FSub(c.last_cursor_pos.x, FMul(screen_size.x, Half)), new_scale)),
                    FSub(world_point.y,
                         FDiv(FSub(c.last_cursor_pos.y, FMul(screen_size.y, Half)), new_scale))) ]

\* an update that steps by twice the interpolation factor
update_double_step(c, dt) ==
    LET t == FMul(F(2), FSub(F(1), exp(FMul(FNeg(c.zoom_smoothness), dt))))
    IN  [c EXCEPT !.camera =
            set_center(set_scale(c.camera,
                                 FAdd(c.camera.scale, FMul(FSub(c.target_scale, c.camera.scale), t))),
                       Vec2(FAdd(c.camera.center.x,
                                 FMul(FSub(c.target_center.x, c.camera.center.x), t)),
                            FAdd(c.camera.center.y,
                                 FMul(FSub(c.target_center.y, c.camera.center.y), t))))]

\* the interpolation factor of update: 1 - e^(-smoothness * dt)
update_t(c, dt) == FSub(F(1), exp(FMul(FNeg(c.zoom_smoothness), dt)))

update(c, dt) ==
    LET t == update_t(c, dt)
        current_scale == c.camera.scale
        new_scale == FAdd(current_scale, FMul(FSub(c.target_scale, current_scale), t))
        current_center == c.camera.center
        new_center ==
            Vec2(FAdd(current_center.x, FMul(FSub(c.target_center.x, current_center.x), t)),
                 FAdd(current_center.y, FMul(FSub(c.target_center.y, current_center.y), t)))
    IN  [c EXCEPT !.camera = set_center(set_scale(c.camera, new_scale), new_center)]

\* App::enable_camera's resize callback: camera_mut().set_screen_size(...)
on_resize(c, screen_size) == [c EXCEPT !.camera = set_screen_size(c.camera, screen_size)]

---------------------------------------------------------------------------
(* Bounds and input sets of the CameraController specification *)

MaxCtrlOps == 4

CtrlCameras == {Camera2D_new(V(0, 0), F(1), V(800, 600)), Camera2D_new(V(100, 50), F(2), V(640, 480))}

MouseButtons == {GLFW_MOUSE_BUTTON_LEFT, 1}

MouseActions == {GLFW_RELEASE, GLFW_PRESS, GLFW_REPEAT}

CursorPositions == {V(400, 300), V(100, 200), V(-20, 650)}

ScrollOffsets == {F(1), F(-1), F(0)}

Sensitivities == {<<11, 10>>, F(2)}

Smoothnesses == {F(0), F(2), F(6)}

FrameTimes == {F(0), Half, F(1)}

NoCtrlOp == [op |-> "new", arg |-> F(0), pre |-> CameraController_new(Camera2D_new(V(0, 0), F(1), V(0, 0)))]

CtrlOp(name, arg) == [op |-> name, arg |-> arg, pre |-> ctrl]

\* a run of cursor moves and updates starting from controller c
DragFrom(c) == [from |-> c, moves |-> 0, updates |-> 0]

CtrlInit ==
    /\ ctrl \in {CameraController_new(cam) : cam \in CtrlCameras}
    /\ ctrlLast = NoCtrlOp
    /\ ctrlOps = 0
    /\ drag = DragFrom(ctrl)
    /\ leftPressed = FALSE

CtrlIdle ==
    /\ ctrl = CameraController_new(Camera2D_new(V(0, 0), F(1), V(800, 600)))
    /\ ctrlLast = NoCtrlOp
    /\ ctrlOps = 0
    /\ drag = DragFrom(ctrl)
    /\ leftPressed = FALSE

CtrlStep(c, op) ==
    /\ ctrlOps < MaxCtrlOps
    /\ UNCHANGED <<camVars, instVars, atlasVars, shapeVars>>
    /\ ctrl' = c
    /\ ctrlLast' = op
    /\ ctrlOps' = ctrlOps + 1
    /\ drag' = CASE op.op = "on_cursor_move" -> [drag EXCEPT !.moves = @ + 1]
                 [] op.op = "update" -> [drag EXCEPT !.updates = @ + 1]
                 [] OTHER -> DragFrom(c)
    /\ leftPressed' = IF op.op = "on_mouse_button" /\ op.arg[1] = GLFW_MOUSE_BUTTON_LEFT
                      THEN op.arg[2] = GLFW_PRESS
                      ELSE leftPressed

CtrlSetZoomSensitivity ==
    \E s \in Sensitivities : CtrlStep(set_zoom_sensitivity(ctrl, s), CtrlOp("set_zoom_sensitivity", s))

CtrlSetZoomSmoothness ==
    \E s \in Smoothnesses : CtrlStep(set_zoom_smoothness(ctrl, s), CtrlOp("set_zoom_smoothness", s))

CtrlOnMouseButton ==
    \E b \in MouseButtons, a \in MouseActions :
        CtrlStep(on_mouse_button(ctrl, b, a), CtrlOp("on_mouse_button", <<b, a>>))

CtrlOnCursorMove ==
    \E p \in CursorPositions : CtrlStep(on_cursor_move(ctrl, p), CtrlOp("on_cursor_move", p))

CtrlOnScroll ==
    \E y \in ScrollOffsets : CtrlStep(on_scroll(ctrl, y), CtrlOp("on_scroll", y))

CtrlUpdate ==
    \E dt \in FrameTimes : CtrlStep(update(ctrl, dt), CtrlOp("update", dt))

CtrlOnResize ==
    \E z \in ScreenSizes : CtrlStep(on_resize(ctrl, z), CtrlOp("on_resize", z))

\* positive smoothness values of the render loop
FrameSmoothnesses == {F(2), F(4)}

\* The render loop with the target held fixed: the controllers whose target an event has
\* moved away from the displayed camera, with a positive smoothness, and then nothing
\* but update calls.  drag.from stays the controller the frames started from.
FrameControllers ==
    {set_zoom_smoothness(
         on_scroll(on_cursor_move(CameraController_new(cam), p), y), s) :
         cam \in CtrlCameras, p \in CursorPositions, y \in {F(1), F(-1)},
         s \in FrameSmoothnesses}

FramesInit ==
    /\ ctrl \in FrameControllers
    /\ ctrlLast = NoCtrlOp
    /\ ctrlOps = 0
    /\ drag = DragFrom(ctrl)
    /\ leftPressed = FALSE

\* a frame in which time has passed; MaxCtrlOps bounds the number of these
FrameUpdate ==
    \E dt \in {d \in FrameTimes : FGt(d, F(0))} :
        /\ ctrlOps < MaxCtrlOps
        /\ ctrl' = update(ctrl, dt)
        /\ ctrlLast' = CtrlOp("update", dt)
        /\ ctrlOps' = ctrlOps + 1
        /\ UNCHANGED <<drag, leftPressed, camVars, instVars, atlasVars, shapeVars>>

\* a frame with dt = 0
FrameUpdateNoTime ==
    /\ ctrl' = update(ctrl, F(0))
    /\ ctrlLast' = CtrlOp("update", F(0))
    /\ UNCHANGED <<ctrlOps, drag, leftPressed, camVars, instVars, atlasVars, shapeVars>>

---------------------------------------------------------------------------
(* Geometry instancing, Mesh, and ShapeRenderable::render *)

SizeOfGLfloat == 4

\* gl_gen_buffer: a fresh non-zero buffer name
gl_gen_buffer(g) == g.generated + 1

Geometry_new ==
    [instance_vbo |-> 0, instance_color_vbo |-> 0, instance_count |-> 0]

\* Each operation on the geometry yields the new geometry and the new backend state.
enable_instancing_xy(geo, g, max_instances) ==
    LET vbo == IF geo.instance_vbo = 0 THEN gl_gen_buffer(g) ELSE geo.instance_vbo
        gen == IF geo.instance_vbo = 0 THEN g.generated + 1 ELSE g.generated
    IN  [geo |-> [geo EXCEPT !.instance_vbo = vbo],
         gl  |-> [g EXCEPT !.generated = gen,
                           !.xy_bytes = max_instances * 2 * SizeOfGLfloat,
                           !.xy = << >>]]

enable_instancing_color(geo, g, max_instances) ==
    LET vbo == IF geo.instance_color_vbo = 0 THEN gl_gen_buffer(g) ELSE geo.instance_color_vbo
        gen == IF geo.instance_color_vbo = 0 THEN g.generated + 1 ELSE g.generated
    IN  [geo |-> [geo EXCEPT !.instance_color_vbo = vbo],
         gl  |-> [g EXCEPT !.generated = gen,
                           !.color_bytes = max_instances * 4 * SizeOfGLfloat,
                           !.colors = << >>]]

\* an update_instance_xy that caps the instance count at the allocated capacity
update_instance_xy_capped(geo, g, xy) ==
    LET capacity == g.xy_bytes \div (2 * SizeOfGLfloat)
        k == IF Len(xy) > capacity THEN capacity ELSE Len(xy)
    IN  IF geo.instance_vbo = 0 THEN [geo |-> geo, gl |-> g]
        ELSE [geo |-> [geo EXCEPT !.instance_count = k],
              gl  |-> [g EXCEPT !.xy = SubSeq(xy, 1, k)]]

\* an update_instance_xy without the early return
update_instance_xy_unguarded(geo, g, xy) ==
    [geo |-> [geo EXCEPT !.instance_count = Len(xy)],
     gl  |-> [g EXCEPT !.xy_bytes = Len(xy) * 2 * SizeOfGLfloat, !.xy = xy]]

update_instance_xy(geo, g, xy) ==
    IF geo.instance_vbo = 0 THEN [geo |-> geo, gl |-> g]
    ELSE [geo |-> [geo EXCEPT !.instance_count = Len(xy)],
          gl  |-> [g EXCEPT !.xy_bytes = Len(xy) * 2 * SizeOfGLfloat, !.xy = xy]]

update_instance_colors(geo, g, colors) ==
    LET en == IF geo.instance_color_vbo = 0
              THEN enable_instancing_color(geo, g, Len(colors))
              ELSE [geo |-> geo, gl |-> g]
    IN  [geo |-> en.geo,
         gl  |-> [en.gl EXCEPT !.color_bytes = Len(colors) * 4 * SizeOfGLfloat,
                               !.colors = colors]]

\* a clear that also gives up the instance buffer
clear_instancing_releases_buffer(geo) == [geo EXCEPT !.instance_count = 0, !.instance_vbo = 0]

\* instance_count = 0; instance_vbo is kept for reuse
clear_instancing(geo) == [geo EXCEPT !.instance_count = 0]

Max(a, b) == IF a > b THEN a ELSE b

\* Renderer::draw_mesh: one gl_draw_arrays with u_screen_offset = mesh.screen_offset()
draw_mesh(sh, geo) ==
    [call |-> "gl_draw_arrays",
     u_screen_offset |-> IF sh.screen_offset.some
                         THEN <<sh.screen_offset.x, sh.screen_offset.y>>
                         ELSE <<F(0), F(0)>>,
     u_scale |-> sh.mesh_scale,
     instances |-> 0]

\* a draw_mesh_instanced that sets u_screen_offset from the mesh, as draw_mesh does
draw_mesh_instanced_mesh_offset(sh, geo) ==
    [call |-> "gl_draw_arrays_instanced",
     u_screen_offset |-> IF sh.screen_offset.some
                         THEN <<sh.screen_offset.x, sh.screen_offset.y>>
                         ELSE <<F(0), F(0)>>,
     u_scale |-> sh.mesh_scale,
     instances |-> Max(geo.instance_count, 0)]

\* Renderer::draw_mesh_instanced: one gl_draw_arrays_instanced with u_screen_offset = (0,0)
draw_mesh_instanced(sh, geo) ==
    [call |-> "gl_draw_arrays_instanced",
     u_screen_offset |-> <<F(0), F(0)>>,
     u_scale |-> sh.mesh_scale,
     instances |-> Max(geo.instance_count, 0)]

ShapeRenderable_new(x, y) ==
    [x |-> x, y |-> y, scale |-> F(1), mesh_scale |-> F(1),
     screen_offset |-> [some |-> FALSE, x |-> F(0), y |-> F(0)]]

set_position(sh, x, y) == [sh EXCEPT !.x = x, !.y = y]

\* ShapeRenderable::render: the shape after the call and the draws it issued
render(sh, geo) ==
    LET scaled == [sh EXCEPT !.mesh_scale = sh.scale]
    IN  IF geo.instance_count > 0
        THEN [shape |-> scaled, draws |-> <<draw_mesh_instanced(scaled, geo)>>]
        ELSE LET single == [scaled EXCEPT !.screen_offset = [some |-> TRUE, x |-> sh.x, y |-> sh.y]]
             IN  [shape |-> single, draws |-> <<draw_mesh(single, geo)>>]

---------------------------------------------------------------------------
(* Bounds and input sets of the instancing specification *)

MaxInstances == 3

MaxCapacity == 3

MaxInstOps == 6

Anchors == {V(0, 0), V(50, 80)}

InstancePoint(i) == V(10 * i, 5)

PositionArrays == {[i \in 1..k |-> InstancePoint(i)] : k \in 0..MaxInstances}

\* no colours, or one colour per instance of the largest batch
ColorArrays == {[i \in 1..k |-> "red"] : k \in {0, MaxInstances}}

GlInit == [generated |-> 0, xy_bytes |-> 0, xy |-> << >>, color_bytes |-> 0, colors |-> << >>,
           draws |-> << >>]

\* lastK: length of the most recent position update (-1: none yet); earlyUpdate: a
\* position update was made before instancing was enabled; clearedSince: clear was
\* called after the most recent position update; afterClear: the most recent position
\* update was the first one after a clear; cycles: number of clears that were followed
\* by a position update with at least one entry
InstHistInit == [op |-> "new", lastK |-> -1, earlyUpdate |-> FALSE, clearedSince |-> FALSE,
                 capacity |-> -1, afterClear |-> FALSE, cycles |-> 0, pre |-> Geometry_new]

InstInit ==
    /\ geom = Geometry_new
    /\ shape \in {ShapeRenderable_new(a.x, a.y) : a \in Anchors}
    /\ gl = GlInit
    /\ instHist = InstHistInit
    /\ instOps = 0

InstIdle ==
    /\ geom = Geometry_new
    /\ shape = ShapeRenderable_new(F(0), F(0))
    /\ gl = GlInit
    /\ instHist = InstHistInit
    /\ instOps = 0

InstStep ==
    /\ instOps < MaxInstOps
    /\ instOps' = instOps + 1
    /\ UNCHANGED <<camVars, ctrlVars, atlasVars, shapeVars>>

InstCreateMultipleInstances ==
    \E capacity \in 0..MaxCapacity :
        LET r == enable_instancing_xy(geom, gl, capacity)
        IN  /\ InstStep
            /\ geom' = r.geo
            /\ gl' = r.gl
            /\ instHist' = [instHist EXCEPT !.op = "enable", !.capacity = capacity, !.pre = geom]
            /\ UNCHANGED shape

InstSetInstancePositions ==
    \E xy \in PositionArrays :
        LET r == update_instance_xy(geom, gl, xy)
        IN  /\ InstStep
            /\ geom' = r.geo
            /\ gl' = r.gl
            /\ instHist' = [instHist EXCEPT
                              !.op = "update", !.lastK = Len(xy), !.clearedSince = FALSE,
                              !.earlyUpdate = @ \/ geom.instance_vbo = 0,
                              !.afterClear = instHist.clearedSince,
                              !.cycles = IF instHist.clearedSince /\ Len(xy) > 0 THEN @ + 1 ELSE @,
                              !.pre = geom]
            /\ UNCHANGED shape

InstUpdateInstanceColors ==
    \E colors \in ColorArrays :
        LET r == update_instance_colors(geom, gl, colors)
        IN  /\ InstStep
            /\ geom' = r.geo
            /\ gl' = r.gl
            /\ instHist' = [instHist EXCEPT !.op = "update_colors", !.pre = geom]
            /\ UNCHANGED shape

InstClearInstances ==
    /\ InstStep
    /\ geom' = clear_instancing(geom)
    /\ instHist' = [instHist EXCEPT !.op = "clear", !.clearedSince = TRUE, !.pre = geom]
    /\ UNCHANGED <<gl, shape>>

InstSetPosition ==
    \E a \in Anchors :
        /\ InstStep
        /\ shape' = set_position(shape, a.x, a.y)
        /\ instHist' = [instHist EXCEPT !.op = "set_position", !.pre = geom]
        /\ UNCHANGED <<geom, gl>>

InstRender ==
    LET r == render(shape, geom)
    IN  /\ InstStep
        /\ shape' = r.shape
        /\ gl' = [gl EXCEPT !.draws = r.draws]
        /\ instHist' = [instHist EXCEPT !.op = "render", !.pre = geom]
        /\ UNCHANGED geom

---------------------------------------------------------------------------
(* FontAtlas *)

None == [some |-> FALSE]

Some(v) == [some |-> TRUE, value |-> v]

FontAtlas_new(texture_id, font_size, atlas_size) ==
    [texture_id |-> texture_id,
     atlas_width |-> atlas_size,
     atlas_height |-> atlas_size,
     cursor_x |-> 0,
     cursor_y |-> 0,
     row_height |-> 0,
     glyphs |-> << >>,
     font_size |-> font_size,
     uploads |-> << >>]

\* HashMap::insert
Insert(m, k, v) == [x \in DOMAIN m \cup {k} |-> IF x = k THEN v ELSE m[x]]

\* metrics.advance >> 6: from 1/64 pixel units to whole pixels
AdvancePixels(advance) == advance \div 64

\* an atlas-full check that lets a glyph hang one pixel row over the bottom edge
atlas_is_full_off_by_one(a, glyph_height) == a.cursor_y + glyph_height > a.atlas_height + 1

\* the "atlas is full" check made after the optional row wrap
atlas_is_full(a, glyph_height) == a.cursor_y + glyph_height > a.atlas_height

\* a test that takes only a null bitmap for an empty glyph
bitmap_is_null(metrics) == metrics.null

\* bitmap_ptr.is_null() || metrics.width == 0 || metrics.height == 0
bitmap_is_empty(metrics) == metrics.null \/ metrics.width = 0 \/ metrics.height = 0

\* a row wrap that starts the new row one pixel below the cursor, whatever the row holds
next_row_below_cursor(a) ==
    [a EXCEPT !.cursor_x = 0, !.cursor_y = a.cursor_y + 1, !.row_height = 0]

\* a row wrap that starts over at the top of the atlas once the bottom is reached
next_row_or_top(a) ==
    [a EXCEPT !.cursor_x = 0,
              !.cursor_y = IF a.cursor_y + a.row_height + 1 >= a.atlas_height THEN 0
                           ELSE a.cursor_y + a.row_height + 1,
              !.row_height = 0]

\* the move to the next row: cursor_x = 0; cursor_y += row_height + 1; row_height = 0
next_row(a) ==
    [a EXCEPT !.cursor_x = 0, !.cursor_y = a.cursor_y + a.row_height + 1, !.row_height = 0]

\* cache_glyph: load, pack and cache a glyph; yields the atlas after the call and the result
cache_glyph(fnt, a, ch) ==
    LET metrics == fnt[ch]
    IN  IF ~metrics.ok THEN [atlas |-> a, result |-> None]
        ELSE IF bitmap_is_empty(metrics)
        THEN LET info == [uv_x |-> F(0), uv_y |-> F(0), uv_width |-> F(0), uv_height |-> F(0),
                          width |-> 0, height |-> 0,
                          bearing_x |-> metrics.bearing_x, bearing_y |-> metrics.bearing_y,
                          advance |-> F(AdvancePixels(metrics.advance))]
             IN  [atlas |-> [a EXCEPT !.glyphs = Insert(a.glyphs, ch, info)],
                  result |-> Some(info)]
        ELSE LET glyph_width == metrics.width
                 glyph_height == metrics.height
                 wrap == a.cursor_x + glyph_width > a.atlas_width
                 w == IF wrap THEN next_row(a) ELSE a
             IN  IF atlas_is_full(w, glyph_height)
                 THEN [atlas |-> w, result |-> None]
                 ELSE LET info == [uv_x |-> FDiv(F(w.cursor_x), F(w.atlas_width)),
                                   uv_y |-> FDiv(F(w.cursor_y), F(w.atlas_height)),
                                   uv_width |-> FDiv(F(glyph_width), F(w.atlas_width)),
                                   uv_height |-> FDiv(F(glyph_height), F(w.atlas_height)),
                                   width |-> metrics.width, height |-> metrics.height,
                                   bearing_x |-> metrics.bearing_x,
                                   bearing_y |-> metrics.bearing_y,
                                   advance |-> F(AdvancePixels(metrics.advance))]
                      IN  [atlas |-> [w EXCEPT
                                        !.uploads = Append(w.uploads,
                                            <<w.cursor_x, w.cursor_y, glyph_width, glyph_height>>),
                                        !.cursor_x = w.cursor_x + glyph_width + 1,
                                        !.row_height = Max(w.row_height, glyph_height),
                                        !.glyphs = Insert(w.glyphs, ch, info)],
                           result |-> Some(info)]

\* a get_glyph that packs the glyph again without looking it up in the cache
get_glyph_uncached(fnt, a, ch) == cache_glyph(fnt, a, ch)

get_glyph(fnt, a, ch) ==
    IF ch \in DOMAIN a.glyphs
    THEN [atlas |-> a, result |-> Some(a.glyphs[ch])]
    ELSE cache_glyph(fnt, a, ch)

\* the six vertices <<x, y, u, v>> of one character quad
GlyphQuad(glyph, cursor_x, baseline_y) ==
    LET x0 == FAdd(cursor_x, F(glyph.bearing_x))
        y0 == FSub(baseline_y, F(glyph.bearing_y))
        x1 == FAdd(x0, F(glyph.width))
        y1 == FAdd(y0, F(glyph.height))
        u0 == glyph.uv_x
        v0 == glyph.uv_y
        u1 == FAdd(glyph.uv_x, glyph.uv_width)
        v1 == FAdd(glyph.uv_y, glyph.uv_height)
    IN  << <<x0, y1, u0, v1>>, <<x1, y1, u1, v1>>, <<x1, y0, u1, v0>>,
           <<x0, y1, u0, v1>>, <<x1, y0, u1, v0>>, <<x0, y0, u0, v0>> >>

\* a pen advance by the glyph's bitmap width instead of its advance width
advance_pen_by_width(cursor_x, glyph) == FAdd(cursor_x, F(glyph.width))

\* cursor_x += glyph.advance
advance_pen(cursor_x, glyph) == FAdd(cursor_x, glyph.advance)

\* the loop of text_geometry from character i on
RECURSIVE text_loop(_, _, _, _, _, _)
text_loop(fnt, a, text, i, cursor_x, vertices) ==
    IF i > Len(text) THEN [atlas |-> a, vertices |-> vertices, cursor_x |-> cursor_x]
    ELSE LET r == get_glyph(fnt, a, text[i])
         IN  IF ~r.result.some
             THEN text_loop(fnt, r.atlas, text, i + 1, cursor_x, vertices)
             ELSE LET glyph == r.result.value
                  IN  IF glyph.width = 0 \/ glyph.height = 0
                      THEN text_loop(fnt, r.atlas, text, i + 1,
                                     advance_pen(cursor_x, glyph), vertices)
                      ELSE text_loop(fnt, r.atlas, text, i + 1,
                                     advance_pen(cursor_x, glyph),
                                     vertices \o GlyphQuad(glyph, cursor_x, F(a.font_size)))

text_geometry(fnt, a, text) == text_loop(fnt, a, text, 1, F(0), << >>)

---------------------------------------------------------------------------
(* Bounds and input sets of the FontAtlas specification *)

MaxTextLen == 2

MaxCursorY == 8

Chars == {"a", "b", "c", " ", "?"}

Metrics(ok, null, width, height, bearing_x, bearing_y, advance) ==
    [ok |-> ok, null |-> null, width |-> width, height |-> height,
     bearing_x |-> bearing_x, bearing_y |-> bearing_y, advance |-> advance]

\* "?" has no glyph in either face (load_char fails); " " rasterizes to an empty bitmap
\* (a null bitmap in the first face, a bitmap of height 0 in the second); the second
\* face's "a" is wider than every atlas of AtlasSizes
Fonts ==
    { [font_size |-> 3,
       glyph |-> ("a" :> Metrics(TRUE, FALSE, 2, 2, 0, 2, 192) @@
                  "b" :> Metrics(TRUE, FALSE, 2, 3, 1, 3, 200) @@
                  "c" :> Metrics(TRUE, FALSE, 1, 1, 0, 1, 128) @@
                  " " :> Metrics(TRUE, TRUE, 0, 0, 0, 0, 160) @@
                  "?" :> Metrics(FALSE, TRUE, 0, 0, 0, 0, 0))],
      [font_size |-> 4,
       glyph |-> ("a" :> Metrics(TRUE, FALSE, 7, 1, 0, 1, 256) @@
                  "b" :> Metrics(TRUE, FALSE, 1, 4, 0, 3, 100) @@
                  "c" :> Metrics(TRUE, FALSE, 2, 2, -1, 2, 129) @@
                  " " :> Metrics(TRUE, FALSE, 2, 0, 0, 0, 255) @@
                  "?" :> Metrics(FALSE, TRUE, 0, 0, 0, 0, 0))] }

AtlasSizes == {4, 6}

\* the characters of the strings built: a glyph that packs, one that may not fit,
\* whitespace and a character the face lacks
TextChars == {"a", "b", " ", "?"}

Texts == UNION {[1..n -> TextChars] : n \in 0..MaxTextLen}

NoGlyphOp == [op |-> "none", ch |-> "a", result |-> None, pre |-> FontAtlas_new(0, 0, 0)]

NoTextOp == [op |-> "none", text |-> << >>, vertices |-> << >>, cursor_x |-> F(0),
             pre |-> FontAtlas_new(0, 0, 0)]

NoFullHist == [since |-> << >>, again |-> {}]

\* the characters of cs the atlas refused for lack of room: loadable, not empty, and not
\* cached after the call
FailedFull(fnt, after, cs) ==
    {c \in cs : c \notin DOMAIN after.glyphs /\ fnt[c].ok /\ ~bitmap_is_empty(fnt[c])}

\* the history after a call that requested the characters cs: per refused character the
\* number of uploads made when it was first refused, and the characters refused again
\* after further uploads
NoteFull(hist, fnt, after, cs) ==
    LET failed == FailedFull(fnt, after, cs)
    IN  [since |-> [c \in DOMAIN hist.since \cup failed |->
                        IF c \in DOMAIN hist.since THEN hist.since[c] ELSE Len(after.uploads)],
         again |-> hist.again \cup
                   {c \in failed \cap DOMAIN hist.since : Len(after.uploads) > hist.since[c]}]

AtlasInit ==
    /\ font \in Fonts
    /\ atlas \in {FontAtlas_new(1, font.font_size, n) : n \in AtlasSizes}
    /\ atlasLast = NoGlyphOp
    /\ firstInfo = << >>
    /\ textOut = NoTextOp
    /\ fullHist = NoFullHist

AtlasIdle ==
    /\ font = CHOOSE f \in Fonts : f.font_size = 3
    /\ atlas = FontAtlas_new(1, 3, 4)
    /\ atlasLast = NoGlyphOp
    /\ firstInfo = << >>
    /\ textOut = NoTextOp
    /\ fullHist = NoFullHist

\* the first successful result per character, extended by the glyphs newly cached
Remember(first, a) ==
    [c \in DOMAIN first \cup DOMAIN a.glyphs |-> IF c \in DOMAIN first THEN first[c] ELSE a.glyphs[c]]

AtlasStep ==
    /\ atlas.cursor_y <= MaxCursorY
    /\ UNCHANGED <<font, camVars, ctrlVars, instVars, shapeVars>>

AtlasGetGlyph ==
    \E ch \in Chars :
        \E r \in {get_glyph(font.glyph, atlas, ch)} :
            /\ AtlasStep
            /\ atlas' = r.atlas
            /\ atlasLast' = [op |-> "get_glyph", ch |-> ch, result |-> r.result, pre |-> atlas]
            /\ firstInfo' = IF r.result.some /\ ch \notin DOMAIN firstInfo
                            THEN Insert(firstInfo, ch, r.result.value)
                            ELSE firstInfo
            /\ textOut' = NoTextOp
            /\ fullHist' = NoteFull(fullHist, font.glyph, r.atlas, {ch})

AtlasTextGeometry ==
    \E text \in Texts :
        \E r \in {text_geometry(font.glyph, atlas, text)} :
            /\ AtlasStep
            /\ atlas' = r.atlas
            /\ textOut' = [op |-> "text_geometry", text |-> text, vertices |-> r.vertices,
                           cursor_x |-> r.cursor_x, pre |-> atlas]
            /\ firstInfo' = Remember(firstInfo, r.atlas)
            /\ atlasLast' = NoGlyphOp
            /\ fullHist' = NoteFull(fullHist, font.glyph, r.atlas, {text[i] : i \in 1..Len(text)})

---------------------------------------------------------------------------
(* Stroke geometry: line_geometry and polyline_geometry.  A vertex is a pair <<x, y>>. *)

MIN_STROKE_WIDTH == <<3, 2>>

MITER_LIMIT == F(4)

\* f32::max: the larger operand; a NaN operand is ignored
FMax(a, b) == IF IsNaN(a) THEN b ELSE IF IsNaN(b) THEN a ELSE IF FLt(a, b) THEN b ELSE a

FLe(a, b) == FLt(a, b) \/ FEq(a, b)

\* the integer square root of a perfect square
ISqrt(n) == CHOOSE r \in 0..n : r * r = n

\* f32::sqrt, on the squares of rationals (the segment lengths of the polylines built
\* here are rational)
sqrt(a) == <<ISqrt(a[1]), ISqrt(a[2])>>

\* f32::powi(2)
powi2(a) == FMul(a, a)

NoGeometry == << >>

line_geometry(x1, y1, x2, y2, stroke_width_in) ==
    LET stroke_width == FMax(stroke_width_in, MIN_STROKE_WIDTH)
        dx == FSub(x2, x1)
        dy == FSub(y2, y1)
        length == sqrt(FAdd(FMul(dx, dx), FMul(dy, dy)))
    IN  IF FEq(length, F(0)) THEN NoGeometry
        ELSE LET nx == FDiv(FNeg(dy), length)
                 ny == FDiv(dx, length)
                 half_thickness == FDiv(stroke_width, F(2))
                 ox == FMul(nx, half_thickness)
                 oy == FMul(ny, half_thickness)
                 v0 == <<FSub(x1, ox), FSub(y1, oy)>>
                 v1 == <<FSub(x2, ox), FSub(y2, oy)>>
                 v2 == <<FAdd(x2, ox), FAdd(y2, oy)>>
                 v3 == <<FAdd(x1, ox), FAdd(y1, oy)>>
             IN  <<v0, v1, v2, v2, v3, v0>>

\* one extend_from_slice of polyline_geometry: the vertices appended, what they are
\* ("quad", "bevel" or "miter") and the point b of the iteration that appended them
Piece(kind, b, vertices) == [kind |-> kind, joint |-> b, vertices |-> vertices]

\* (b.0 - a.0).hypot(b.1 - a.1) == 0.0
SamePoint(a, b) == FEq(FSub(b[1], a[1]), F(0)) /\ FEq(FSub(b[2], a[2]), F(0))

\* the index (0-based) at which the leading while loop stops skipping points equal to
\* points[0]
RECURSIVE skip_duplicates(_, _)
skip_duplicates(points, idx) ==
    IF idx < Len(points) /\ SamePoint(points[1], points[idx + 1])
    THEN skip_duplicates(points, idx + 1)
    ELSE idx

\* a join that takes z = 0 for a turn: the bevel is appended whenever bc has a length
polyline_join_at_every_point(a, b, ab, bc, a1, a2, b1, b2, half_thickness, miter_limit_squared) ==
    LET len_bc == sqrt(FAdd(FMul(bc[1], bc[1]), FMul(bc[2], bc[2])))
    IN  IF ~FGt(len_bc, F(0)) THEN << >>
        ELSE LET normal_bc == <<FMul(FDiv(FNeg(bc[2]), len_bc), half_thickness),
                                FMul(FDiv(bc[1], len_bc), half_thickness)>>
                 b4 == <<FSub(b[1], normal_bc[1]), FSub(b[2], normal_bc[2])>>
             IN  <<Piece("bevel", b, <<b, b2, b4>>)>>

\* the join appended at b for the turn from ab to bc
polyline_join(a, b, ab, bc, a1, a2, b1, b2, half_thickness, miter_limit_squared) ==
    LET len_bc == sqrt(FAdd(FMul(bc[1], bc[1]), FMul(bc[2], bc[2])))
    IN  IF ~FGt(len_bc, F(0)) THEN << >>
        ELSE LET normal_bc == <<FMul(FDiv(FNeg(bc[2]), len_bc), half_thickness),
                                FMul(FDiv(bc[1], len_bc), half_thickness)>>
                 b3 == <<FAdd(b[1], normal_bc[1]), FAdd(b[2], normal_bc[2])>>
                 b4 == <<FSub(b[1], normal_bc[1]), FSub(b[2], normal_bc[2])>>
                 z == FSub(FMul(ab[1], bc[2]), FMul(ab[2], bc[1]))
                 bevel == IF FLt(z, F(0)) THEN <<Piece("bevel", b, <<b, b1, b3>>)>>
                          ELSE IF FGt(z, F(0)) THEN <<Piece("bevel", b, <<b, b2, b4>>)>>
                          ELSE << >>
                 a_j == IF FLt(z, F(0)) THEN a1 ELSE a2
                 b_j == IF FLt(z, F(0)) THEN b3 ELSE b4
                 alpha == FDiv(FAdd(FMul(bc[2], FSub(b_j[1], a_j[1])),
                                    FMul(bc[1], FSub(a_j[2], b_j[2]))), z)
                 mx == FAdd(a_j[1], FMul(alpha, ab[1]))
                 my == FAdd(a_j[2], FMul(alpha, ab[2]))
                 dist2 == FAdd(powi2(FSub(mx, b[1])), powi2(FSub(my, b[2])))
                 miter == IF FEq(z, F(0)) THEN << >>
                          ELSE IF ~FLe(dist2, miter_limit_squared) THEN << >>
                          ELSE IF FLt(z, F(0)) THEN <<Piece("miter", b, << <<mx, my>>, b1, b3 >>)>>
                          ELSE <<Piece("miter", b, << <<mx, my>>, b2, b4 >>)>>
             IN  bevel \o miter

\* the for loop of polyline_geometry from iteration i on (i, like idx, is 0-based)
RECURSIVE polyline_loop(_, _, _, _, _, _, _)
polyline_loop(points, i, a, b, half_thickness, miter_limit_squared, pieces) ==
    IF i > Len(points) THEN pieces
    ELSE LET c == IF i < Len(points) THEN points[i + 1] ELSE a
             ab == <<FSub(b[1], a[1]), FSub(b[2], a[2])>>
             len_ab == sqrt(FAdd(FMul(ab[1], ab[1]), FMul(ab[2], ab[2])))
             normal_ab == <<FMul(FDiv(FNeg(ab[2]), len_ab), half_thickness),
                            FMul(FDiv(ab[1], len_ab), half_thickness)>>
             a1 == <<FAdd(a[1], normal_ab[1]), FAdd(a[2], normal_ab[2])>>
             a2 == <<FSub(a[1], normal_ab[1]), FSub(a[2], normal_ab[2])>>
             b1 == <<FAdd(b[1], normal_ab[1]), FAdd(b[2], normal_ab[2])>>
             b2 == <<FSub(b[1], normal_ab[1]), FSub(b[2], normal_ab[2])>>
             bc == <<FSub(c[1], b[1]), FSub(c[2], b[2])>>
             quad == Piece("quad", b, <<a1, a2, b1, a2, b1, b2>>)
             join == polyline_join(a, b, ab, bc, a1, a2, b1, b2, half_thickness, miter_limit_squared)
         IN  polyline_loop(points, i + 1, b, c, half_thickness, miter_limit_squared,
                           Append(pieces, quad) \o join)

\* polyline_geometry: the pieces appended to the vertex buffer, in order
polyline_geometry(points, stroke_width) ==
    IF Len(points) < 2 THEN << >>
    ELSE LET half_thickness == FDiv(FMax(stroke_width, F(1)), F(2))
             miter_limit_squared == FDiv(powi2(FMul(stroke_width, MITER_LIMIT)), F(4))
             idx == skip_duplicates(points, 1)
         IN  IF idx >= Len(points) THEN << >>
             ELSE polyline_loop(points, idx + 1, points[1], points[idx + 1],
                                half_thickness, miter_limit_squared, << >>)

\* the vertex buffer: the vertices of the pieces, concatenated
RECURSIVE Vertices(_)
Vertices(pieces) ==
    IF pieces = << >> THEN << >> ELSE pieces[1].vertices \o Vertices(Tail(pieces))

---------------------------------------------------------------------------
(* ShapeRenderable constructors.  built records the last construction: the shape kind,
   whether it returned a renderable (ok) or panicked in an assert!, the points and
   stroke width it was given, and the pieces of the vertex buffer it produced. *)

MaxPoints == 3

\* no Arc was sampled
NoArc == [start_angle |-> F(0), end_angle |-> F(0), thetas |-> << >>]

Built(kind, ok, points, stroke_width, pieces) ==
    [kind |-> kind, ok |-> ok, points |-> points, stroke_width |-> stroke_width,
     pieces |-> pieces, arc |-> NoArc]

NoBuild == Built("none", TRUE, << >>, F(0), << >>)

\* assert! failed: the constructor unwinds and returns nothing
Panicked(kind, points, stroke_width) == Built(kind, FALSE, points, stroke_width, << >>)

\* points.iter().map(|(x, y)| (x - x0, y - y0))
rel_points(points) ==
    [i \in 1..Len(points) |-> <<FSub(points[i][1], points[1][1]),
                                FSub(points[i][2], points[1][2])>>]

\* ShapeRenderable::line
line(x1, y1, x2, y2, stroke_width) ==
    LET geometry == line_geometry(F(0), F(0), FSub(x2, x1), FSub(y2, y1), stroke_width)
    IN  Built("Line", TRUE, << <<x1, y1>>, <<x2, y2>> >>, stroke_width,
              IF geometry = NoGeometry THEN << >>
              ELSE <<Piece("quad", <<FSub(x2, x1), FSub(y2, y1)>>, geometry)>>)

\* ShapeRenderable::polyline_from_points
polyline_from_points(kind, points, stroke_width) ==
    IF ~(Len(points) >= 2) THEN Panicked(kind, points, stroke_width)
    ELSE Built(kind, TRUE, points, stroke_width,
               polyline_geometry(rel_points(points), stroke_width))

\* ShapeRenderable::polyline
polyline(x, y, points, stroke_width) ==
    IF ~(Len(points) >= 2) THEN Panicked("Polyline", points, stroke_width)
    ELSE LET abs_points == [i \in 1..Len(points) |->
                                <<FAdd(x, points[i][1]), FAdd(y, points[i][2])>>]
         IN  Built("Polyline", TRUE, points, stroke_width,
                   polyline_geometry(rel_points(abs_points), stroke_width))

\* Angles are measured in quarter turns, so that the full turn TAU is 4
TAU == F(4)

segments == 64

\* the sweep of ShapeRenderable::arc: end - start, plus one turn when that is negative
arc_sweep(start_angle, end_angle) ==
    LET sweep == FSub(end_angle, start_angle)
    IN  IF FLt(sweep, F(0)) THEN FAdd(sweep, TAU) ELSE sweep

\* the angles theta of the sampling loop, for i = 0..segments
arc_thetas(start_angle, end_angle) ==
    LET sweep == arc_sweep(start_angle, end_angle)
    IN  [k \in 1..(segments + 1) |->
            LET t == FDiv(F(k - 1), F(segments)) IN FAdd(start_angle, FMul(t, sweep))]

\* ShapeRenderable::arc.  The sampled points (x + r cos theta, y - r sin theta) are not
\* rational; points stands for the list the sampling loop pushed, and the record arc
\* keeps the ArcShape's angles and the angles theta the points were pushed at.
arc(start_angle, end_angle, points, stroke_width) ==
    [polyline_from_points("Arc", points, stroke_width)
        EXCEPT !.arc = [start_angle |-> start_angle, end_angle |-> end_angle,
                        thetas |-> arc_thetas(start_angle, end_angle)]]

\* polygon_geometry: one triangle fan over the points
polygon_geometry(points) ==
    IF ~(Len(points) >= 3) THEN NoGeometry ELSE <<Piece("fan", points[1], points)>>

\* ShapeRenderable::polygon
polygon(x, y, points) ==
    IF ~(Len(points) >= 3) THEN Panicked("Polygon", points, F(0))
    ELSE LET abs_points == [i \in 1..Len(points) |->
                                <<FAdd(x, points[i][1]), FAdd(y, points[i][2])>>]
         IN  Built("Polygon", TRUE, points, F(0), polygon_geometry(rel_points(abs_points)))

\* a weaker assert!, on the width alone
rounded_rectangle_fits_width(width, height, radius) == FLe(FMul(radius, F(2)), width)

\* the assert! of rounded_rectangle_geometry
rounded_rectangle_fits(width, height, radius) ==
    FLe(FMul(radius, F(2)), width) /\ FLe(FMul(radius, F(2)), height)

\* ShapeRenderable::rounded_rectangle; points holds <<width, height>> and <<radius, radius>>.
\* Of the fan only its first vertex, the centre, is kept.
rounded_rectangle(width, height, radius) ==
    IF ~rounded_rectangle_fits(width, height, radius)
    THEN Panicked("RoundedRectangle", << <<width, height>>, <<radius, radius>> >>, F(0))
    ELSE Built("RoundedRectangle", TRUE, << <<width, height>>, <<radius, radius>> >>, F(0),
               <<Piece("fan", <<FDiv(width, F(2)), FDiv(height, F(2))>>,
                       << <<FDiv(width, F(2)), FDiv(height, F(2))>> >>)>>)

\* the points shapes are built from: every segment between two of them that the
\* polylines below use has a rational length
ShapePoints == {<<F(0), F(0)>>, <<F(12), F(0)>>, <<F(24), F(0)>>, <<F(0), F(7)>>, <<F(12), F(5)>>}

IsSquare(n) == \E r \in 0..n : r * r = n

\* the distance from p to q is rational
RationalLength(p, q) ==
    LET d2 == FAdd(powi2(FSub(q[1], p[1])), powi2(FSub(q[2], p[2])))
    IN  IsSquare(d2[1]) /\ IsSquare(d2[2])

PointLists ==
    {ps \in UNION {[1..n -> ShapePoints] : n \in 0..MaxPoints} :
        \A i \in 1..Len(ps) : \A j \in 1..Len(ps) : RationalLength(ps[i], ps[j])}

StrokeWidths == {<<1, 5>>, F(1), <<6, 5>>, <<3, 2>>, F(2)}

Origins == {<<F(0), F(0)>>, <<F(10), F(20)>>}

\* start and end angles, in quarter turns
ArcAngles == {F(-1), F(0), F(5)}

BoxSizes == {F(10), F(20)}

Radii == {F(-1), F(0), F(5), F(6), F(10), F(11), NaN}

BuildLine ==
    \E o \in Origins, p \in ShapePoints, w \in StrokeWidths :
        built' = line(o[1], o[2], FAdd(o[1], p[1]), FAdd(o[2], p[2]), w)

BuildPolyline ==
    \E o \in Origins, ps \in PointLists, w \in StrokeWidths :
        built' = polyline(o[1], o[2], ps, w)

BuildArc ==
    \E ps \in {qs \in PointLists : Len(qs) >= 2}, w \in StrokeWidths :
        \E start_angle \in ArcAngles, end_angle \in ArcAngles :
            built' = arc(start_angle, end_angle, ps, w)

BuildPolygon ==
    \E o \in Origins, ps \in PointLists : built' = polygon(o[1], o[2], ps)

BuildRoundedRectangle ==
    \E w \in BoxSizes, h \in BoxSizes, r \in Radii : built' = rounded_rectangle(w, h, r)

\* the constructors are pure: each is applied once, to every input
ShapeStep(A) ==
    built = NoBuild /\ A /\ UNCHANGED <<camVars, ctrlVars, instVars, atlasVars, fontCacheVars>>

---------------------------------------------------------------------------
(* The font cache and the text renderables made from it.  An Rc allocation is named by a
   handle that is never given out twice; the heap holds, per live handle, the FontAtlas
   and the number of Rc values pointing at it. *)

MaxCacheOps == 4

MaxTexts == 3

\* the texture names gl_gen_texture hands out
TextureNames == 1..3

\* FontAtlas::new(font_path, font_size, 512)
FONT_ATLAS_SIZE == 512

FontPaths == {"a.ttf", "b.ttf"}

\* the cache keys requested: one path at two sizes, and a second path
FontCacheKeys == {<<"a.ttf", 3>>, <<"a.ttf", 4>>, <<"b.ttf", 3>>}

\* the face FreeType loads for a key, at the key's pixel size
FaceOf(key) == CHOOSE f \in Fonts : f.font_size = key[2]

TextContents == {<<"a", "b">>}

FontCacheIdle ==
    /\ FONT_CACHE = << >>
    /\ heap = << >>
    /\ textures = {}
    /\ texts = << >>
    /\ requests = << >>
    /\ cacheOps = 0

\* nothing built and nothing cached
ShapeIdle == built = NoBuild /\ FontCacheIdle

\* the handle of the next Rc::new
NextHandle == Cardinality({i \in 1..Len(requests) : requests[i].fresh}) + 1

\* HashMap::remove / dropping a heap entry
Without(m, k) == [x \in DOMAIN m \ {k} |-> m[x]]

\* a cache keyed by the font path alone
get_or_create_font_atlas_by_path(cache, hp, tex, key, name, handle) ==
    IF \E k \in DOMAIN cache : k[1] = key[1]
    THEN LET k == CHOOSE k \in DOMAIN cache : k[1] = key[1]
         IN  [cache |-> cache, heap |-> [hp EXCEPT ![cache[k]].strong = @ + 1], textures |-> tex,
              rc |-> cache[k], fresh |-> FALSE]
    ELSE [cache |-> Insert(cache, key, handle),
          heap |-> Insert(hp, handle, [atlas |-> FontAtlas_new(name, key[2], FONT_ATLAS_SIZE),
                                       strong |-> 2]),
          textures |-> tex \cup {name}, rc |-> handle, fresh |-> TRUE]

\* get_or_create_font_atlas: the Rc returned (a clone of the cached one, or of the one just
\* created and inserted), with name the texture gl_gen_texture returns to FontAtlas::new
get_or_create_font_atlas(cache, hp, tex, key, name, handle) ==
    IF key \in DOMAIN cache
    THEN [cache |-> cache, heap |-> [hp EXCEPT ![cache[key]].strong = @ + 1], textures |-> tex,
          rc |-> cache[key], fresh |-> FALSE]
    ELSE [cache |-> Insert(cache, key, handle),
          heap |-> Insert(hp, handle, [atlas |-> FontAtlas_new(name, key[2], FONT_ATLAS_SIZE),
                                       strong |-> 2]),
          textures |-> tex \cup {name}, rc |-> handle, fresh |-> TRUE]

\* dropping one Rc: the last one drops the FontAtlas, whose Drop deletes its texture
drop_rc(st, h) ==
    IF st.heap[h].strong > 1
    THEN [st EXCEPT !.heap[h].strong = @ - 1]
    ELSE [st EXCEPT !.heap = Without(st.heap, h),
                    !.textures = @ \ {st.heap[h].atlas.texture_id}]

RECURSIVE drop_all(_, _)
drop_all(st, handles) ==
    IF handles = {} THEN st
    ELSE LET h == CHOOSE h \in handles : TRUE
         IN  drop_all(drop_rc(st, h), handles \ {h})

\* clear_font_cache: HashMap::clear drops every Rc the cache holds
clear_font_cache(cache, hp, tex) ==
    LET st == drop_all([heap |-> hp, textures |-> tex], {cache[k] : k \in DOMAIN cache})
    IN  [cache |-> << >>, heap |-> st.heap, textures |-> st.textures]

\* ShapeRenderable::text: the renderable keeps the texture id in its Mesh and the Text in
\* its ShapeKind; the Rc obtained from the cache is a local and is dropped on return.
\* from records the handle the texture id was read from (the renderable does not hold it).
ShapeRenderable_text(cache, hp, tex, key, content, name, handle) ==
    LET got == get_or_create_font_atlas(cache, hp, tex, key, name, handle)
        geometry == text_geometry(FaceOf(key).glyph, got.heap[got.rc].atlas, content)
        texture_id == geometry.atlas.texture_id
        after == drop_rc([heap |-> [got.heap EXCEPT ![got.rc].atlas = geometry.atlas],
                          textures |-> got.textures], got.rc)
    IN  [cache |-> got.cache, heap |-> after.heap, textures |-> after.textures,
         renderable |-> [key |-> key, content |-> content, texture |-> texture_id,
                         from |-> got.rc],
         request |-> [key |-> key, rc |-> got.rc, fresh |-> got.fresh,
                      atlas |-> got.heap[got.rc].atlas,
                      clears |-> Cardinality({i \in 1..Len(requests) : requests[i].key = << >>})]]

FontCacheStep ==
    /\ cacheOps < MaxCacheOps
    /\ cacheOps' = cacheOps + 1
    /\ UNCHANGED <<camVars, ctrlVars, instVars, atlasVars, built>>

\* a clear_font_cache call, as an entry of the request history
ClearMark == [key |-> << >>, rc |-> 0, fresh |-> FALSE, atlas |-> FontAtlas_new(0, 0, 0),
              clears |-> 0]

FontCacheText ==
    \E key \in FontCacheKeys, content \in TextContents, name \in TextureNames \ textures :
        \E r \in {ShapeRenderable_text(FONT_CACHE, heap, textures, key, content, name, NextHandle)} :
            /\ FontCacheStep
            /\ Len(texts) < MaxTexts
            /\ FONT_CACHE' = r.cache
            /\ heap' = r.heap
            /\ textures' = r.textures
            /\ texts' = Append(texts, r.renderable)
            /\ requests' = Append(requests, r.request)

\* a text renderable is dropped: its Mesh holds no Rc and deletes no texture
FontCacheDropText ==
    \E i \in 1..Len(texts) :
        /\ FontCacheStep
        /\ texts' = [j \in 1..(Len(texts) - 1) |-> IF j < i THEN texts[j] ELSE texts[j + 1]]
        /\ UNCHANGED <<FONT_CACHE, heap, textures, requests>>

FontCacheClear ==
    \E r \in {clear_font_cache(FONT_CACHE, heap, textures)} :
        /\ FontCacheStep
        /\ FONT_CACHE' = r.cache
        /\ heap' = r.heap
        /\ textures' = r.textures
        /\ requests' = Append(requests, ClearMark)
        /\ UNCHANGED texts

---------------------------------------------------------------------------
(* Specifications: one per subsystem, the other subsystems idle *)

InitCamera == CamInit /\ CtrlIdle /\ InstIdle /\ AtlasIdle /\ ShapeIdle

NextCamera ==
    \/ CamSetCenter
    \/ CamSetScale
    \/ CamSetScreenSize
    \/ CamPan
    \/ CamPanScreen
    \/ CamZoom
    \/ CamZoomAt

SpecCamera == InitCamera /\ [][NextCamera]_vars

InitController == CamIdle /\ CtrlInit /\ InstIdle /\ AtlasIdle /\ ShapeIdle

NextController ==
    \/ CtrlSetZoomSensitivity
    \/ CtrlSetZoomSmoothness
    \/ CtrlOnMouseButton
    \/ CtrlOnCursorMove
    \/ CtrlOnScroll
    \/ CtrlUpdate
    \/ CtrlOnResize

SpecController == InitController /\ [][NextController]_vars

InitFrames == CamIdle /\ FramesInit /\ InstIdle /\ AtlasIdle /\ ShapeIdle

NextFrames ==
    \/ FrameUpdate
    \/ FrameUpdateNoTime

\* FrameUpdate as it shows on the frame counter: among the steps of NextFrames exactly
\* the FrameUpdate steps change ctrlOps, and both are enabled exactly while
\* ctrlOps < MaxCtrlOps, so that WF_ctrlOps(FrameAdvances) is WF_vars(FrameUpdate)
FrameAdvances == ctrlOps < MaxCtrlOps /\ ctrlOps' = ctrlOps + 1

\* App::run calls update once per frame, and time passes between frames
SpecFrames == InitFrames /\ [][NextFrames]_vars /\ WF_ctrlOps(FrameAdvances)

InitInstancing == CamIdle /\ CtrlIdle /\ InstInit /\ AtlasIdle /\ ShapeIdle

NextInstancing ==
    \/ InstCreateMultipleInstances
    \/ InstSetInstancePositions
    \/ InstUpdateInstanceColors
    \/ InstClearInstances
    \/ InstSetPosition
    \/ InstRender

SpecInstancing == InitInstancing /\ [][NextInstancing]_vars

InitAtlas == CamIdle /\ CtrlIdle /\ InstIdle /\ AtlasInit /\ ShapeIdle

NextAtlas ==
    \/ AtlasGetGlyph
    \/ AtlasTextGeometry

SpecAtlas == InitAtlas /\ [][NextAtlas]_vars

InitShapes == CamIdle /\ CtrlIdle /\ InstIdle /\ AtlasIdle /\ ShapeIdle

NextShapes ==
    \/ ShapeStep(BuildLine)
    \/ ShapeStep(BuildPolyline)
    \/ ShapeStep(BuildArc)
    \/ ShapeStep(BuildPolygon)
    \/ ShapeStep(BuildRoundedRectangle)

SpecShapes == InitShapes /\ [][NextShapes]_vars

InitFontCache == CamIdle /\ CtrlIdle /\ InstIdle /\ AtlasIdle /\ ShapeIdle

NextFontCache ==
    \/ FontCacheText
    \/ FontCacheDropText
    \/ FontCacheClear

SpecFontCache == InitFontCache /\ [][NextFontCache]_vars

---------------------------------------------------------------------------
(* Claims about Camera2D, checked under SpecCamera *)

HalfScreen(cam) == Vec2(FMul(cam.screen_size.x, Half), FMul(cam.screen_size.y, Half))

\* C1: after zoom_at(factor, p) on a camera with scale > 0 and factor > 0, the scale is
\* the old scale times factor and screen_to_world(p) is what it was before the call, for
\* points inside and outside the visible area; zooming at the screen centre leaves the
\* center unchanged.
C1_ZoomAtKeepsPointFixed ==
    (/\ camLast.op = "zoom_at"
     /\ FGt(camLast.pre.scale, F(0))
     /\ FGt(camLast.factor, F(0)))
    => /\ FEq(camera.scale, FMul(camLast.pre.scale, camLast.factor))
       /\ VEq(screen_to_world(camera, camLast.point),
              screen_to_world(camLast.pre, camLast.point))
       /\ (VEq(camLast.point, HalfScreen(camLast.pre)) => VEq(camera.center, camLast.pre.center))

\* a zoom at a point outside the visible area that moved the center
C1_Witness ==
    /\ camLast.op = "zoom_at"
    /\ camLast.point = V(-100, 700)
    /\ camLast.factor = F(3)
    /\ ~VEq(camera.center, camLast.pre.center)

\* C2: for a camera with scale > 0, world_to_screen and screen_to_world are inverses of
\* each other: each composition maps every point to itself.
C2_RoundTrip ==
    FGt(camera.scale, F(0))
    => /\ \A p \in ScreenPoints :
              VEq(world_to_screen(camera, screen_to_world(camera, p)), p)
       /\ \A w \in WorldPoints :
              VEq(screen_to_world(camera, world_to_screen(camera, w)), w)

\* a camera with a fractional scale and a fractional center
C2_Witness ==
    /\ camera.scale[2] # 1
    /\ camera.center.x[2] # 1
    /\ camOps > 0

\* C3: world_to_screen is the affine map p |-> (p - center) * scale + screen_size / 2:
\* the center maps to the screen centre, the displacement of a world point from the
\* image of the origin is the point scaled by scale, and on an 800x600 screen centred at
\* the origin scale 1 maps (0,0) to (400,300) and scale 2 maps (10,10) to (420,320).
C3_WorldToScreenFormula ==
    /\ VEq(world_to_screen(camera, camera.center), HalfScreen(camera))
    /\ \E o \in {world_to_screen(camera, V(0, 0))} :
          \A p \in WorldPoints :
             \E sp \in {world_to_screen(camera, p)} :
                /\ FEq(FSub(sp.x, o.x), FMul(p.x, camera.scale))
                /\ FEq(FSub(sp.y, o.y), FMul(p.y, camera.scale))
    /\ (camera = Camera2D_new(V(0, 0), F(1), V(800, 600))
          => world_to_screen(camera, V(0, 0)) = V(400, 300))
    /\ (camera = Camera2D_new(V(0, 0), F(2), V(800, 600))
          => world_to_screen(camera, V(10, 10)) = V(420, 320))

\* the scenario camera at scale 2, reached by zooming
C3_Witness ==
    /\ camera = Camera2D_new(V(0, 0), F(2), V(800, 600))
    /\ camLast.op = "zoom"

---------------------------------------------------------------------------
(* Claims about instancing and render dispatch, checked under SpecInstancing *)

\* C4: when instancing was enabled before the first position update, the instance count
\* used for drawing is the length of the most recent position update, whatever capacity
\* was requested and whatever enable or colour-update calls came in between.
C4_InstanceCountIsLastUpdateLength ==
    (/\ instHist.lastK >= 0
     /\ ~instHist.earlyUpdate
     /\ ~instHist.clearedSince)
    => /\ geom.instance_count = instHist.lastK
       /\ draw_mesh_instanced(shape, geom).instances = instHist.lastK

\* three positions were uploaded after enable(1), and enable(0) was called again since
C4_Witness ==
    /\ instHist.op = "enable"
    /\ instHist.capacity = 0
    /\ instHist.lastK = 3
    /\ ~instHist.earlyUpdate
    /\ ~instHist.clearedSince
    /\ gl.colors # << >>

\* C5: every render issues exactly one draw: an instanced draw with the instance count
\* and u_screen_offset = (0,0) when the instance count is non-zero, a single draw with
\* u_screen_offset = the shape's anchor when it is zero.
C5_RenderDispatch ==
    instHist.op = "render"
    => /\ Len(gl.draws) = 1
       /\ IF geom.instance_count # 0
          THEN /\ gl.draws[1].call = "gl_draw_arrays_instanced"
               /\ gl.draws[1].instances = geom.instance_count
               /\ gl.draws[1].u_screen_offset = <<F(0), F(0)>>
          ELSE /\ gl.draws[1].call = "gl_draw_arrays"
               /\ gl.draws[1].u_screen_offset = <<shape.x, shape.y>>

\* an instanced render of a shape whose mesh holds a non-zero offset from an earlier
\* single render
C5_Witness ==
    /\ instHist.op = "render"
    /\ geom.instance_count = 2
    /\ shape.screen_offset.some
    /\ shape.screen_offset.x = F(50)

---------------------------------------------------------------------------
(* Claims about the glyph atlas and text geometry, checked under SpecAtlas *)

\* C6: get_glyph for a character that is already cached returns exactly the GlyphInfo
\* of the first request and does not re-pack: cursor_x, cursor_y, row_height, the
\* uploads and the cached glyphs are unchanged, whatever was requested in between.
C6_CachedGlyphIsStable ==
    /\ \A c \in DOMAIN atlas.glyphs : c \in DOMAIN firstInfo /\ atlas.glyphs[c] = firstInfo[c]
    /\ (atlasLast.op = "get_glyph" /\ atlasLast.ch \in DOMAIN atlasLast.pre.glyphs)
       => /\ atlasLast.result = Some(firstInfo[atlasLast.ch])
          /\ atlas.cursor_x = atlasLast.pre.cursor_x
          /\ atlas.cursor_y = atlasLast.pre.cursor_y
          /\ atlas.row_height = atlasLast.pre.row_height
          /\ atlas.uploads = atlasLast.pre.uploads
          /\ atlas.glyphs = atlasLast.pre.glyphs

\* a repeated request for a packed glyph after two other glyphs were packed and the
\* packer moved on to another row
C6_Witness ==
    /\ atlasLast.op = "get_glyph"
    /\ atlasLast.ch \in DOMAIN atlasLast.pre.glyphs
    /\ atlasLast.result.value.width > 0
    /\ atlasLast.result.value.uv_x = F(0)
    /\ atlasLast.result.value.uv_y = F(0)
    /\ Cardinality(DOMAIN atlasLast.pre.glyphs) >= 3
    /\ atlasLast.pre.cursor_y > 0

\* the request of ch on atlas a is for an uncached, loadable, non-empty glyph that does
\* not fit below cursor_y after the optional row wrap
DoesNotFit(fnt, a, ch) ==
    LET m == fnt[ch]
        y == IF a.cursor_x + m.width > a.atlas_width
             THEN a.cursor_y + a.row_height + 1
             ELSE a.cursor_y
    IN  /\ ch \notin DOMAIN a.glyphs
        /\ m.ok /\ ~m.null /\ m.width > 0 /\ m.height > 0
        /\ y + m.height > a.atlas_height

\* C7: when a non-empty glyph does not fit, get_glyph fails for that glyph only: the
\* glyph is not inserted, no cached glyph is evicted or changed, the atlas is not
\* resized and nothing is uploaded, and every cached glyph is still returned.
C7_AtlasFullFailsThatGlyphOnly ==
    (atlasLast.op = "get_glyph" /\ DoesNotFit(font.glyph, atlasLast.pre, atlasLast.ch))
    => /\ atlasLast.result = None
       /\ atlas.glyphs = atlasLast.pre.glyphs
       /\ atlas.atlas_width = atlasLast.pre.atlas_width
       /\ atlas.atlas_height = atlasLast.pre.atlas_height
       /\ atlas.texture_id = atlasLast.pre.texture_id
       /\ atlas.uploads = atlasLast.pre.uploads
       /\ \A c \in DOMAIN atlasLast.pre.glyphs :
             LET again == get_glyph(font.glyph, atlas, c)
             IN  /\ again.result = Some(atlasLast.pre.glyphs[c])
                 /\ again.atlas = atlas

\* a glyph that exactly reaches one row past the bottom edge fails on an atlas that
\* already holds two packed glyphs
C7_Witness ==
    /\ atlasLast.op = "get_glyph"
    /\ DoesNotFit(font.glyph, atlasLast.pre, atlasLast.ch)
    /\ atlasLast.result = None
    /\ \E c, d \in DOMAIN atlas.glyphs : c # d /\ atlas.glyphs[c].width > 0 /\ atlas.glyphs[d].width > 0
    /\ \E m \in {font.glyph[atlasLast.ch]} :
          atlas.cursor_y + m.height = atlas.atlas_height + 1

\* character i of the text got a glyph: its glyph is cached once the text is built
GotGlyph(text, i) == text[i] \in DOMAIN atlas.glyphs

\* character i of the text is drawn: it got a glyph and the glyph has a bitmap
Drawn(text, i) ==
    /\ GotGlyph(text, i)
    /\ atlas.glyphs[text[i]].width > 0
    /\ atlas.glyphs[text[i]].height > 0

\* character i of the text could be loaded from the face but found no room in the atlas
FailedAtlasFull(text, i) ==
    /\ ~GotGlyph(text, i)
    /\ font.glyph[text[i]].ok

\* the pen position before character i when only the characters that got a glyph
\* advance the pen
RECURSIVE PenSkippingFailed(_, _)
PenSkippingFailed(text, i) ==
    IF i <= 1 THEN F(0)
    ELSE IF GotGlyph(text, i - 1)
         THEN FAdd(PenSkippingFailed(text, i - 1), atlas.glyphs[text[i - 1]].advance)
         ELSE PenSkippingFailed(text, i - 1)

\* the pen position before character i when every character the face can load advances
\* the pen by its advance width, whether or not its glyph request succeeded
RECURSIVE PenAdvancingFailed(_, _)
PenAdvancingFailed(text, i) ==
    IF i <= 1 THEN F(0)
    ELSE IF font.glyph[text[i - 1]].ok
         THEN FAdd(PenAdvancingFailed(text, i - 1),
                   F(AdvancePixels(font.glyph[text[i - 1]].advance)))
         ELSE PenAdvancingFailed(text, i - 1)

\* the number of drawn characters among the first i
DrawnUpTo(text, i) == Cardinality({j \in 1..i : Drawn(text, j)})

\* the x coordinate of the left edge of the quad of drawn character i
QuadLeft(text, i) == textOut.vertices[6 * DrawnUpTo(text, i)][1]

---------------------------------------------------------------------------
(* Claims about CameraController, checked under SpecController *)

\* C9: with smoothness 0, one update(dt) snaps the displayed camera onto its target:
\* for any dt the displayed center and scale equal target_center and target_scale.
C9_ZeroSmoothnessSnaps ==
    (ctrlLast.op = "update" /\ FEq(ctrlLast.pre.zoom_smoothness, F(0)))
    => /\ VEq(ctrl.camera.center, ctrl.target_center)
       /\ FEq(ctrl.camera.scale, ctrl.target_scale)

\* the camera of the target state: target_center and target_scale on the displayed
\* camera's screen
TargetCamera(c) == Camera2D_new(c.target_center, c.target_scale, c.camera.screen_size)

\* C10: on_scroll multiplies target_scale by the sensitivity when y_offset > 0 and by
\* 1/sensitivity otherwise, and moves target_center so that the world point under the
\* last cursor position in the target state is the same before and after the scroll.
C10_ScrollKeepsTargetPointFixed ==
    ctrlLast.op = "on_scroll"
    => LET pre == ctrlLast.pre
       IN  /\ FEq(ctrl.target_scale,
                  IF FGt(ctrlLast.arg, F(0))
                  THEN FMul(pre.target_scale, pre.zoom_sensitivity)
                  ELSE FDiv(pre.target_scale, pre.zoom_sensitivity))
           /\ ctrl.last_cursor_pos = pre.last_cursor_pos
           /\ VEq(screen_to_world(TargetCamera(ctrl), ctrl.last_cursor_pos),
                  screen_to_world(TargetCamera(pre), pre.last_cursor_pos))

\* a scroll with y_offset = 0 and the cursor off the screen centre, on a controller
\* whose displayed camera lags behind its target
C10_Witness ==
    /\ ctrlLast.op = "on_scroll"
    /\ ctrlLast.arg = F(0)
    /\ ctrlLast.pre.last_cursor_pos = V(100, 200)
    /\ ~FEq(ctrlLast.pre.camera.scale, ctrlLast.pre.target_scale)
    /\ ~VEq(ctrlLast.pre.camera.center, ctrlLast.pre.target_center)
    /\ ~VEq(ctrl.target_center, ctrlLast.pre.target_center)

\* C11: while dragging, a cursor move from c0 to c1 changes target_center by
\* -(c1 - c0) / target_scale (the target scale, not the displayed one) and nothing else
\* of the target; hence after any run of cursor moves with update(dt) calls in between,
\* target_center is what a single move from the first cursor position to the last one,
\* with no update, gives.
C11_DragPansAgainstTarget ==
    /\ (ctrlLast.op = "on_cursor_move" /\ ctrlLast.pre.is_dragging)
       => LET pre == ctrlLast.pre
              c0 == pre.last_cursor_pos
              c1 == ctrlLast.arg
          IN  /\ FEq(FSub(ctrl.target_center.x, pre.target_center.x),
                     FNeg(FDiv(FSub(c1.x, c0.x), pre.target_scale)))
              /\ FEq(FSub(ctrl.target_center.y, pre.target_center.y),
                     FNeg(FDiv(FSub(c1.y, c0.y), pre.target_scale)))
              /\ ctrl.target_scale = pre.target_scale
    /\ (drag.from.is_dragging /\ drag.moves >= 1)
       => /\ VEq(ctrl.target_center,
                 on_cursor_move(drag.from, ctrl.last_cursor_pos).target_center)
          /\ ctrl.target_scale = drag.from.target_scale

\* a drag of two moves to different positions with an update in between that moved the
\* displayed camera
C11_Witness ==
    /\ drag.from.is_dragging
    /\ drag.moves = 2
    /\ drag.updates = 1
    /\ ctrlLast.op = "on_cursor_move"
    /\ ctrlLast.arg # ctrlLast.pre.last_cursor_pos
    /\ ctrlLast.pre.last_cursor_pos # drag.from.last_cursor_pos
    /\ ~VEq(ctrlLast.pre.camera.center, drag.from.camera.center)

---------------------------------------------------------------------------
(* Camera2D called with arbitrary f32 arguments: set_scale, zoom and zoom_at accept
   every scale and factor, also zero and negative ones *)

AnyScales == CamScales \cup {F(0), F(-1)}

AnyFactors == ZoomFactors \cup {F(0), F(-2)}

InitCameraAny ==
    /\ camera \in Cameras
    /\ camLast = NoCamOp
    /\ camOps = 0
    /\ CtrlIdle /\ InstIdle /\ AtlasIdle /\ ShapeIdle

CamSetScaleAny ==
    \E s \in AnyScales : CamStep(set_scale(camera, s), CamOp("set_scale", s, V(0, 0)))

CamZoomAny ==
    \E f \in AnyFactors : CamStep(zoom(camera, f), CamOp("zoom", f, V(0, 0)))

CamZoomAtAny ==
    \E f \in AnyFactors, p \in ScreenPoints :
        CamStep(zoom_at(camera, f, p), CamOp("zoom_at", f, p))

NextCameraAny ==
    \/ CamSetCenter
    \/ CamSetScaleAny
    \/ CamSetScreenSize
    \/ CamPan
    \/ CamPanScreen
    \/ CamZoomAny
    \/ CamZoomAtAny

SpecCameraAny == InitCameraAny /\ [][NextCameraAny]_vars

\* C12: in every reachable state of a Camera2D, after any sequence of new, set_scale,
\* zoom, zoom_at, pan, pan_screen, set_center and set_screen_size, scale > 0.
C12_ScaleIsPositive == FGt(camera.scale, F(0))

---------------------------------------------------------------------------
(* Further claims about instancing, checked under SpecInstancing *)

\* C13: clear sets the instance count to 0 and keeps the instance buffer handles, so the
\* shape then draws in single mode; a later position update with k > 0 entries makes the
\* instance count k again with no new enable call, through any number of clear / update
\* cycles.
C13_ClearKeepsTheBuffer ==
    /\ instHist.op = "clear"
       => /\ geom.instance_count = 0
          /\ geom.instance_vbo = instHist.pre.instance_vbo
          /\ geom.instance_color_vbo = instHist.pre.instance_color_vbo
          /\ render(shape, geom).draws = << draw_mesh(render(shape, geom).shape, geom) >>
    /\ (/\ instHist.op = "update"
        /\ instHist.afterClear
        /\ instHist.pre.instance_vbo # 0
        /\ instHist.lastK > 0)
       => /\ geom.instance_count = instHist.lastK
          /\ geom.instance_vbo = instHist.pre.instance_vbo
          /\ render(shape, geom).draws[1].call = "gl_draw_arrays_instanced"
          /\ render(shape, geom).draws[1].instances = instHist.lastK

\* the second show after two hides: one buffer was ever generated, and the update after
\* the second clear uploads more positions than the capacity enabled
C13_Witness ==
    /\ instHist.op = "update"
    /\ instHist.afterClear
    /\ instHist.cycles = 2
    /\ gl.generated = 1
    /\ instHist.lastK = 3
    /\ instHist.capacity = 2
    /\ geom.instance_count = 3

---------------------------------------------------------------------------
(* Shape construction *)

\* C14: a Polyline of fewer than 2 points, a Polygon of fewer than 3 points and a
\* RoundedRectangle with 2 * radius > width or 2 * radius > height fail to build and
\* yield no renderable (and no geometry); every input within those bounds builds.
C14_DegenerateInputFails ==
    /\ built.kind = "Polyline" => (built.ok <=> Len(built.points) >= 2)
    /\ built.kind = "Polygon" => (built.ok <=> Len(built.points) >= 3)
    /\ built.kind = "RoundedRectangle" =>
           LET width == built.points[1][1]
               height == built.points[1][2]
               twice == FAdd(built.points[2][1], built.points[2][1])
           IN  /\ FGt(twice, width) \/ FGt(twice, height) => ~built.ok
               /\ FLe(twice, width) /\ FLe(twice, height) => built.ok
    /\ ~built.ok => built.pieces = << >>

\* C14 witness: a rounded rectangle 20 wide and 10 high with radius 6 was refused
C14_Witness ==
    /\ built.kind = "RoundedRectangle"
    /\ built.points = << <<F(20), F(10)>>, <<F(6), F(6)>> >>
    /\ ~built.ok

\* the squared distance between two vertices
Dist2(p, q) == FAdd(powi2(FSub(p[1], q[1])), powi2(FSub(p[2], q[2])))

\* a polyline or arc was built
BuiltStroke == built.kind \in {"Polyline", "Arc"} /\ built.ok

\* the pieces of the last construction that are joins
Joins == {i \in 1..Len(built.pieces) : built.pieces[i].kind \in {"bevel", "miter"}}

\* C15: at every polyline joint the miter triangle is emitted only when the squared
\* distance from the joint to the miter point is at most (strokeWidth * 4 / 2)^2, and
\* no vertex emitted for a join lies farther than strokeWidth * miterLimit / 2 from the
\* joint, for every stroke width and every turn angle.
C15_JoinWithinMiterLimit ==
    BuiltStroke =>
        LET limit2 == powi2(FDiv(FMul(built.stroke_width, F(4)), F(2)))
        IN  \A i \in Joins :
                LET piece == built.pieces[i]
                IN  /\ piece.kind = "miter" =>
                           FLe(Dist2(piece.vertices[1], piece.joint), limit2)
                    /\ \A k \in 1..Len(piece.vertices) :
                           FLe(Dist2(piece.vertices[k], piece.joint), limit2)

\* C16: a polyline of three distinct collinear points, the second segment continuing or
\* reversing, is exactly the two segment quads (12 vertices, no join), and a two-point
\* polyline is exactly one quad (6 vertices) with no join at its last point.
C16_CollinearHasNoJoin ==
    built.kind = "Polyline" /\ built.ok =>
        LET ps == built.points
            z == FSub(FMul(FSub(ps[2][1], ps[1][1]), FSub(ps[3][2], ps[2][2])),
                      FMul(FSub(ps[2][2], ps[1][2]), FSub(ps[3][1], ps[2][1])))
        IN  /\ Len(ps) = 3 /\ Cardinality({ps[1], ps[2], ps[3]}) = 3 /\ FEq(z, F(0)) =>
                /\ Len(Vertices(built.pieces)) = 12
                /\ [i \in 1..Len(built.pieces) |-> built.pieces[i].kind] = <<"quad", "quad">>
            /\ Len(ps) = 2 =>
                /\ Len(Vertices(built.pieces)) = 6
                /\ [i \in 1..Len(built.pieces) |-> built.pieces[i].kind] = <<"quad">>

\* C16 (amended): as C16, for a two-point polyline whose two points differ; two equal
\* points give an empty vertex buffer.
C16_CollinearHasNoJoinDistinct ==
    built.kind = "Polyline" /\ built.ok =>
        LET ps == built.points
            z == FSub(FMul(FSub(ps[2][1], ps[1][1]), FSub(ps[3][2], ps[2][2])),
                      FMul(FSub(ps[2][2], ps[1][2]), FSub(ps[3][1], ps[2][1])))
        IN  /\ Len(ps) = 3 /\ Cardinality({ps[1], ps[2], ps[3]}) = 3 /\ FEq(z, F(0)) =>
                /\ Len(Vertices(built.pieces)) = 12
                /\ [i \in 1..Len(built.pieces) |-> built.pieces[i].kind] = <<"quad", "quad">>
            /\ Len(ps) = 2 /\ ps[1] # ps[2] =>
                /\ Len(Vertices(built.pieces)) = 6
                /\ [i \in 1..Len(built.pieces) |-> built.pieces[i].kind] = <<"quad">>
            /\ Len(ps) = 2 /\ ps[1] = ps[2] => built.pieces = << >>

\* C16 witness: the polyline (0,0), (24,0), (12,0), whose second segment reverses, was
\* built as two quads
C16_Witness ==
    /\ built.kind = "Polyline" /\ built.ok
    /\ built.points = << <<F(0), F(0)>>, <<F(24), F(0)>>, <<F(12), F(0)>> >>
    /\ Len(Vertices(built.pieces)) = 12

\* the squared thickness of the first quad of the last construction: the squared
\* distance between its two vertices on either side of the first point (v3 and v0 of
\* line_geometry, a1 and a2 of polyline_geometry)
Thickness2 ==
    LET quad == built.pieces[1].vertices
    IN  IF built.kind = "Line" THEN Dist2(quad[5], quad[6]) ELSE Dist2(quad[1], quad[2])

\* C17: for Line, Polyline and Arc a stroke width below 1.5 is clamped up to 1.5 before
\* geometry is built: the stroke has half-thickness max(width, 1.5) / 2, and a miter is
\* emitted exactly when it is within the limit taken from the clamped width.
C17_StrokeWidthClamped ==
    built.kind \in {"Line", "Polyline", "Arc"} /\ built.ok /\ built.pieces # << >> =>
        LET clamped == IF FLt(built.stroke_width, <<3, 2>>) THEN <<3, 2>>
                       ELSE built.stroke_width
        IN  /\ FEq(Thickness2, powi2(clamped))
            /\ \A i \in Joins :
                   built.pieces[i].kind = "miter" =>
                       FLe(Dist2(built.pieces[i].vertices[1], built.pieces[i].joint),
                           powi2(FMul(clamped, F(2))))

---------------------------------------------------------------------------
(* The font cache *)

\* C18: the atlas texture is deleted only after the last text shape referencing it is
\* gone: in every reachable state, also after clear_font_cache, every live text
\* renderable holds the texture id of an atlas that has not been dropped.
C18_NoTextHoldsDroppedTexture ==
    \A i \in 1..Len(texts) :
        /\ texts[i].from \in DOMAIN heap
        /\ texts[i].texture \in textures
        /\ heap[texts[i].from].atlas.texture_id = texts[i].texture

\* the get_or_create_font_atlas calls in the history (the other entries are clears)
Requested == {i \in 1..Len(requests) : requests[i].key # << >>}

\* request i is the first for its key since the last clear
FirstSinceClear(i) ==
    \A j \in Requested :
        j < i /\ requests[j].clears = requests[i].clears => requests[j].key # requests[i].key

\* C19: between two cache clears, requests with the same (font path, pixel size) key
\* obtain the same atlas instance, which is created at most once per key, and requests
\* with different keys obtain different atlases; after clear_font_cache the next request
\* for a key creates a fresh atlas with an empty glyph cache and cursor at (0,0).
C19_OneAtlasPerKey ==
    /\ \A i \in Requested : \A j \in Requested :
           requests[i].clears = requests[j].clears =>
               /\ requests[i].key = requests[j].key => requests[i].rc = requests[j].rc
               /\ requests[i].key # requests[j].key => requests[i].rc # requests[j].rc
               /\ i < j /\ requests[i].key = requests[j].key => ~requests[j].fresh
    /\ \A i \in Requested :
           FirstSinceClear(i) =>
               /\ requests[i].fresh
               /\ requests[i].atlas.glyphs = << >>
               /\ requests[i].atlas.cursor_x = 0
               /\ requests[i].atlas.cursor_y = 0
               /\ \A j \in Requested : j < i => requests[j].rc # requests[i].rc

\* C19 witness: two texts of one key shared an atlas, the cache was cleared, and the next
\* text of that key got a new atlas
C19_Witness ==
    /\ Len(requests) = 4
    /\ requests[3] = ClearMark
    /\ requests[1].key = requests[2].key /\ requests[2].key = requests[4].key
    /\ requests[1].rc = requests[2].rc /\ ~requests[2].fresh
    /\ requests[4].fresh /\ requests[4].rc # requests[1].rc
    /\ requests[4].atlas.glyphs = << >>

---------------------------------------------------------------------------
(* The visible world rectangle *)

\* C20: world_bounds is (center.x - w/(2*scale), center.y - h/(2*scale),
\* center.x + w/(2*scale), center.y + h/(2*scale)) for screen size (w, h): its corners
\* are screen_to_world((0,0)) and screen_to_world((w,h)), it is centred on center and
\* w/scale by h/scale in size; for center (0,0), scale 1, screen 800x600 it is
\* (-400,-300,400,300).
C20_WorldBounds ==
    LET b == world_bounds(camera)
        top_left == screen_to_world(camera, V(0, 0))
        bottom_right == screen_to_world(camera, camera.screen_size)
    IN  /\ FEq(b[1], top_left.x) /\ FEq(b[2], top_left.y)
        /\ FEq(b[3], bottom_right.x) /\ FEq(b[4], bottom_right.y)
        /\ FEq(FAdd(b[1], b[3]), FMul(F(2), camera.center.x))
        /\ FEq(FAdd(b[2], b[4]), FMul(F(2), camera.center.y))
        /\ FEq(FMul(FSub(b[3], b[1]), camera.scale), camera.screen_size.x)
        /\ FEq(FMul(FSub(b[4], b[2]), camera.scale), camera.screen_size.y)
        /\ camera = Camera2D_new(V(0, 0), F(1), V(800, 600)) =>
               b = <<F(-400), F(-300), F(400), F(300)>>

\* C20 witness: after two operations the camera is off the origin at a scale other than 1
\* and the bounds are not those of the 800x600 scenario
C20_Witness ==
    /\ camOps = MaxCamOps
    /\ ~VEq(camera.center, V(0, 0))
    /\ ~FEq(camera.scale, F(1))
    /\ world_bounds(camera) # <<F(-400), F(-300), F(400), F(300)>>
    /\ FEq(world_bounds(camera)[1], screen_to_world(camera, V(0, 0)).x)

---------------------------------------------------------------------------
(* Shelf packing *)

\* the cached glyphs that occupy pixels of the atlas
Packed == {c \in DOMAIN atlas.glyphs : atlas.glyphs[c].width > 0 /\ atlas.glyphs[c].height > 0}

\* the pixel rectangle <<x, y, width, height>> of a packed glyph, from its UV rectangle
PixelRect(c) ==
    LET g == atlas.glyphs[c]
    IN  <<FMul(g.uv_x, F(atlas.atlas_width)), FMul(g.uv_y, F(atlas.atlas_height)),
          F(g.width), F(g.height)>>

\* C21: after any sequence of get_glyph calls the pixel rectangles of two distinct packed
\* glyphs are disjoint: in one row they are at least 1 px apart horizontally, and a glyph
\* of a later row starts at least 1 px below every glyph of the rows before.
C21_PackedGlyphsAreDisjoint ==
    \A c \in Packed : \A d \in Packed \ {c} :
        LET p == PixelRect(c)
            q == PixelRect(d)
        IN  /\ \/ FLe(FAdd(p[1], p[3]), q[1]) \/ FLe(FAdd(q[1], q[3]), p[1])
               \/ FLe(FAdd(p[2], p[4]), q[2]) \/ FLe(FAdd(q[2], q[4]), p[2])
            /\ FEq(p[2], q[2]) =>
                   \/ FLe(FAdd(FAdd(p[1], p[3]), F(1)), q[1])
                   \/ FLe(FAdd(FAdd(q[1], q[3]), F(1)), p[1])
            /\ FLt(p[2], q[2]) => FLe(FAdd(FAdd(p[2], p[4]), F(1)), q[2])

\* C21 witness: three glyphs are packed, two of different heights side by side in the top
\* row and one in a row below
C21_Witness ==
    \E c \in Packed : \E d \in Packed \ {c} : \E e \in Packed \ {c, d} :
        /\ FEq(PixelRect(c)[2], F(0)) /\ FEq(PixelRect(d)[2], F(0))
        /\ PixelRect(c)[4] # PixelRect(d)[4]
        /\ FGt(PixelRect(e)[2], F(0))

\* C22: every packed glyph lies inside the atlas: x + width <= atlas_width and
\* y + height <= atlas_height, so its UV rectangle is contained in [0,1] x [0,1], for
\* every glyph size the font source returns.
C22_PackedGlyphInsideAtlas ==
    \A c \in Packed :
        LET p == PixelRect(c)
            g == atlas.glyphs[c]
        IN  /\ FLe(FAdd(p[1], p[3]), F(atlas.atlas_width))
            /\ FLe(FAdd(p[2], p[4]), F(atlas.atlas_height))
            /\ FLe(F(0), g.uv_x) /\ FLe(FAdd(g.uv_x, g.uv_width), F(1))
            /\ FLe(F(0), g.uv_y) /\ FLe(FAdd(g.uv_y, g.uv_height), F(1))

\* C23: a request for an uncached glyph whose bitmap is empty (null, zero width or zero
\* height) succeeds with a zero-size UV rectangle, zero width and height and the glyph's
\* advance, caches it, and leaves cursor_x, cursor_y, row_height and the uploads as they
\* were, also when no packable glyph fits any more.
C23_EmptyGlyphIsCachedWithoutPacking ==
    (/\ atlasLast.op = "get_glyph"
     /\ atlasLast.ch \notin DOMAIN atlasLast.pre.glyphs
     /\ font.glyph[atlasLast.ch].ok
     /\ \/ font.glyph[atlasLast.ch].null
        \/ font.glyph[atlasLast.ch].width = 0
        \/ font.glyph[atlasLast.ch].height = 0)
    => /\ atlasLast.result.some
       /\ atlasLast.result.value.uv_x = F(0) /\ atlasLast.result.value.uv_y = F(0)
       /\ atlasLast.result.value.uv_width = F(0) /\ atlasLast.result.value.uv_height = F(0)
       /\ atlasLast.result.value.width = 0 /\ atlasLast.result.value.height = 0
       /\ atlasLast.result.value.advance = F(font.glyph[atlasLast.ch].advance \div 64)
       /\ atlasLast.ch \in DOMAIN atlas.glyphs
       /\ atlas.glyphs[atlasLast.ch] = atlasLast.result.value
       /\ atlas.cursor_x = atlasLast.pre.cursor_x
       /\ atlas.cursor_y = atlasLast.pre.cursor_y
       /\ atlas.row_height = atlasLast.pre.row_height
       /\ atlas.uploads = atlasLast.pre.uploads

\* C23 witness: a glyph with a bitmap of height 0 was cached on an atlas that had already
\* refused a glyph for lack of room
C23_Witness ==
    /\ atlasLast.op = "get_glyph"
    /\ atlasLast.ch \notin DOMAIN atlasLast.pre.glyphs
    /\ ~font.glyph[atlasLast.ch].null /\ font.glyph[atlasLast.ch].height = 0
    /\ atlasLast.result.some
    /\ DOMAIN fullHist.since # {}
    /\ atlas.cursor_x > 0

\* C30: cursor_y never decreases, and a character once refused for lack of room is
\* refused by every later request on the same atlas, whatever was requested in between.
C30_ExhaustionIsPermanent ==
    /\ atlasLast.op = "get_glyph" => atlas.cursor_y >= atlasLast.pre.cursor_y
    /\ textOut.op = "text_geometry" => atlas.cursor_y >= textOut.pre.cursor_y
    /\ \A c \in DOMAIN fullHist.since :
           /\ c \notin DOMAIN atlas.glyphs
           /\ get_glyph(font.glyph, atlas, c).result = None

\* C30 witness: a character was refused, another glyph was packed after that, and the
\* character was requested and refused again
C30_Witness ==
    /\ atlasLast.op = "get_glyph"
    /\ atlasLast.result = None
    /\ atlasLast.ch \in fullHist.again
    /\ Len(atlas.uploads) > fullHist.since[atlasLast.ch]

---------------------------------------------------------------------------
(* The controller's events *)

\* C24: is_dragging is true exactly when the most recent event for the left button was a
\* press; events for other buttons change nothing; a cursor move changes target_center
\* only while is_dragging was set, and otherwise only records the cursor position.
C24_DraggingFollowsLeftButton ==
    /\ ctrl.is_dragging = leftPressed
    /\ (ctrlLast.op = "on_mouse_button" /\ ctrlLast.arg[1] # GLFW_MOUSE_BUTTON_LEFT)
       => ctrl = ctrlLast.pre
    /\ (ctrlLast.op = "on_mouse_button" /\ ctrlLast.arg[1] = GLFW_MOUSE_BUTTON_LEFT)
       => ctrl = [ctrlLast.pre EXCEPT !.is_dragging = (ctrlLast.arg[2] = GLFW_PRESS)]
    /\ ctrlLast.op \notin {"on_mouse_button", "new"} => ctrl.is_dragging = ctrlLast.pre.is_dragging
    /\ (ctrlLast.op = "on_cursor_move" /\ ~ctrlLast.pre.is_dragging)
       => ctrl = [ctrlLast.pre EXCEPT !.last_cursor_pos = ctrlLast.arg]
    /\ (ctrlLast.op = "on_cursor_move" /\ ctrlLast.pre.is_dragging)
       => ctrl = [ctrlLast.pre EXCEPT !.last_cursor_pos = ctrlLast.arg,
                                      !.target_center = ctrl.target_center]

\* C24 witness: after a press, a drag and another event for the left button, a cursor
\* move left the dragged target where it was
C24_Witness ==
    /\ ctrlOps = 4
    /\ ctrlLast.op = "on_cursor_move"
    /\ ~leftPressed
    /\ ~VEq(ctrl.last_cursor_pos, ctrlLast.pre.last_cursor_pos)
    /\ ~VEq(ctrl.target_center, ctrl.camera.center)
    /\ FEq(ctrl.target_scale, ctrl.camera.scale)

\* C25: on_mouse_button, on_cursor_move and on_scroll leave the displayed Camera2D as it
\* was; update leaves target_center, target_scale, is_dragging and last_cursor_pos as
\* they were; the displayed center and scale change only in update.
C25_TargetAndDisplayedAreSeparate ==
    /\ ctrlLast.op \in {"on_mouse_button", "on_cursor_move", "on_scroll"}
       => ctrl.camera = ctrlLast.pre.camera
    /\ ctrlLast.op = "update"
       => /\ VEq(ctrl.target_center, ctrlLast.pre.target_center)
          /\ FEq(ctrl.target_scale, ctrlLast.pre.target_scale)
          /\ ctrl.is_dragging = ctrlLast.pre.is_dragging
          /\ VEq(ctrl.last_cursor_pos, ctrlLast.pre.last_cursor_pos)
          /\ ctrl.zoom_sensitivity = ctrlLast.pre.zoom_sensitivity
          /\ ctrl.zoom_smoothness = ctrlLast.pre.zoom_smoothness
    /\ ctrlLast.op \notin {"update", "new"}
       => /\ VEq(ctrl.camera.center, ctrlLast.pre.camera.center)
          /\ FEq(ctrl.camera.scale, ctrlLast.pre.camera.scale)

\* C25 witness: a scroll moved the target away from a displayed camera that an earlier
\* update had already moved
C25_Witness ==
    /\ ctrlLast.op = "on_scroll"
    /\ ~FEq(ctrl.target_scale, ctrlLast.pre.target_scale)
    /\ ~FEq(ctrl.camera.scale, ctrl.target_scale)
    /\ ctrl.camera \notin CtrlCameras
    /\ ctrl.camera = ctrlLast.pre.camera

---------------------------------------------------------------------------
(* Smoothing *)

FAbs(a) == <<Abs(a[1]), a[2]>>

\* v lies on the segment between from and to
Between(from, v, to) == (FLe(from, v) /\ FLe(v, to)) \/ (FLe(to, v) /\ FLe(v, from))

\* one interpolated quantity: its value before the update, after it, and its target
Approaches(before, after, target, t, dt) ==
    /\ Between(before, after, target)
    /\ FLe(FAbs(FSub(target, after)), FAbs(FSub(target, before)))
    /\ FEq(before, target) => FEq(after, target)
    /\ FEq(FSub(after, before), FMul(FSub(target, before), t))
    /\ (FGt(dt, F(0)) /\ ~FEq(before, target)) =>
           FLt(FAbs(FSub(target, after)), FAbs(FSub(target, before)))

\* the last call was update(dt) with smoothness > 0 and dt >= 0, and it moved the
\* displayed scale and center onto the segment towards the target, with t in [0,1)
C26_Step ==
    (/\ ctrlLast.op = "update"
     /\ FGt(ctrlLast.pre.zoom_smoothness, F(0))
     /\ FLe(F(0), ctrlLast.arg))
    => LET pre == ctrlLast.pre
           dt == ctrlLast.arg
           t == FSub(F(1), exp(FNeg(FMul(pre.zoom_smoothness, dt))))
       IN  /\ FLe(F(0), t) /\ FLt(t, F(1))
           /\ Approaches(pre.camera.scale, ctrl.camera.scale, pre.target_scale, t, dt)
           /\ Approaches(pre.camera.center.x, ctrl.camera.center.x, pre.target_center.x, t, dt)
           /\ Approaches(pre.camera.center.y, ctrl.camera.center.y, pre.target_center.y, t, dt)

\* the displayed value is within 2^-MaxCtrlOps of the distance it started at
CloseTo(start, v, target) ==
    FLe(FMul(FAbs(FSub(target, v)), F(Pow2(MaxCtrlOps))), FAbs(FSub(target, start)))

\* the displayed camera has come within 2^-MaxCtrlOps of its initial distance to the target
C26_Close ==
    /\ CloseTo(drag.from.camera.scale, ctrl.camera.scale, ctrl.target_scale)
    /\ CloseTo(drag.from.camera.center.x, ctrl.camera.center.x, ctrl.target_center.x)
    /\ CloseTo(drag.from.camera.center.y, ctrl.camera.center.y, ctrl.target_center.y)

\* C26: for smoothness > 0 and dt >= 0 each update moves the displayed center and scale to
\* a point of the segment between their previous value and the target (t in [0,1)): the
\* distance to the target never increases, the target is not overshot, a displayed value
\* equal to the target stays; and with the target held fixed, frames with dt > 0 bring the
\* displayed state within any fraction 2^-MaxCtrlOps of its initial distance to the target.
C26_UpdateApproachesTarget == []C26_Step /\ <>C26_Close

\* C26 witness: after a frame without time and frames with time the displayed scale and
\* center are strictly between where they started and the target
C26_Witness ==
    /\ ctrlLast.op = "update"
    /\ ctrlOps >= 2
    /\ ~FEq(ctrl.camera.scale, ctrl.target_scale)
    /\ ~FEq(ctrl.camera.scale, drag.from.camera.scale)
    /\ ~FEq(ctrl.camera.center.x, ctrl.target_center.x)
    /\ Between(drag.from.camera.scale, ctrl.camera.scale, ctrl.target_scale)
    /\ FLt(FMul(FAbs(FSub(ctrl.target_scale, ctrl.camera.scale)), F(4)),
           FAbs(FSub(ctrl.target_scale, drag.from.camera.scale)))

---------------------------------------------------------------------------
(* Zero-length segments *)

\* the points without those equal to their predecessor
RECURSIVE WithoutDuplicates(_)
WithoutDuplicates(points) ==
    IF Len(points) < 2 THEN points
    ELSE IF SamePoint(points[1], points[2]) THEN WithoutDuplicates(Tail(points))
    ELSE <<points[1]>> \o WithoutDuplicates(Tail(points))

HasDuplicates(points) == WithoutDuplicates(points) # points

FiniteVertex(v) == IsFinite(v[1]) /\ IsFinite(v[2])

\* C27: a polyline with consecutive equal points has the vertices of the polyline without
\* them; no vertex coordinate is the result of a division by a zero segment length (none
\* is NaN or infinite); and a polyline whose points are all equal has an empty buffer.
C27_ZeroLengthSegmentsSkipped ==
    BuiltStroke =>
        LET vertices == Vertices(built.pieces)
            distinct == WithoutDuplicates(built.points)
        IN  /\ vertices = Vertices(polyline_geometry(rel_points(distinct), built.stroke_width))
            /\ \A i \in 1..Len(vertices) : FiniteVertex(vertices[i])
            /\ Len(distinct) = 1 => vertices = << >>

---------------------------------------------------------------------------
(* The sweep of an arc *)

\* C28: for every start and end angle the sweep of the built arc is in [0, TAU); it is
\* end - start when that is not negative and end - start plus a full turn otherwise; the
\* 65 sample angles start at the start angle and never decrease.
C28_SweepNormalized ==
    (built.kind = "Arc" /\ built.ok) =>
        LET thetas == built.arc.thetas
            raw == FSub(built.arc.end_angle, built.arc.start_angle)
            sweep == FSub(thetas[segments + 1], thetas[1])
        IN  /\ Len(thetas) = segments + 1
            /\ FEq(thetas[1], built.arc.start_angle)
            /\ FLe(F(0), sweep) /\ FLt(sweep, TAU)
            /\ FLe(F(0), raw) => FEq(sweep, raw)
            /\ FLt(raw, F(0)) => FEq(sweep, FAdd(raw, TAU))
            /\ \A k \in 1..segments : FLe(thetas[k], thetas[k + 1])

---------------------------------------------------------------------------
(* Position updates before instancing is enabled *)

\* C29: set_instance_positions on a geometry without an instance buffer changes nothing:
\* the instance count stays as it was, which is 0; no buffer is generated and nothing is
\* uploaded; and render then issues the single draw at the shape's own anchor.
C29_EarlyUpdateIsIgnored ==
    /\ (instHist.op = "update" /\ instHist.pre.instance_vbo = 0) => geom = instHist.pre
    /\ geom.instance_vbo = 0
       => /\ geom.instance_count = 0
          /\ gl.xy_bytes = 0 /\ gl.xy = << >>
          /\ gl.generated = (IF geom.instance_color_vbo = 0 THEN 0 ELSE 1)
    /\ (instHist.op = "render" /\ geom.instance_vbo = 0)
       => /\ Len(gl.draws) = 1
          /\ gl.draws[1].call = "gl_draw_arrays"
          /\ gl.draws[1].u_screen_offset = <<shape.x, shape.y>>

\* C29 witness: several positions were set on a shape that never enabled instancing, and
\* the shape was then rendered at its anchor (50, 80)
C29_Witness ==
    /\ instHist.earlyUpdate /\ instHist.lastK > 1
    /\ geom.instance_vbo = 0
    /\ instHist.op = "render"
    /\ gl.draws[1].call = "gl_draw_arrays"
    /\ gl.draws[1].u_screen_offset = <<F(50), F(80)>>

====
